---- MODULE Spec2Model ----
(***************************************************************************)
(* A model of the supybot Git plugin (plugin.py, config.py): the monitored *)
(* repositories with their re-entrant locks, the GitFetcher thread, the    *)
(* scheduled _poll callback of the main thread, one command thread running *)
(* `log`, `repositories` and the sha snarfer, and the commit renderer.     *)
(*                                                                         *)
(* Text is a sequence of one-character strings.  A commit is a natural     *)
(* number: commit n is the n-th commit of the tracked branch, 0 being the  *)
(* tip found by the initial clone.                                         *)
(*                                                                         *)
(* Every step that sends lines or writes to the log leaves them in         *)
(* `emitted`, together with the inputs it read; the host takes them in     *)
(* the next step (Flush), and no other step happens in between.            *)
(*                                                                         *)
(* The specifications share the actions:                                   *)
(*   Spec         the fetcher thread and the poll runs, from the state     *)
(*                Git.__init__ leaves;                                     *)
(*   SpecReturns  the same when no get_new_commits call raises;            *)
(*   SpecCmd      the commands, the snarfer and one poll run, from any     *)
(*                state the fetcher and earlier poll runs leave behind;    *)
(*   SpecOn       Spec while pollPeriod stays above 0, with fairness;      *)
(*   SpecStop     Spec with a fetcher thread that keeps running and a      *)
(*                join that returns;                                       *)
(*   SpecMutex    the fetcher, one poll run, the commands and the snarfer  *)
(*                together, over mirrors that are up to date;              *)
(*   SpecLife     the plugin object under rehash, changes of pollPeriod,   *)
(*                poll runs, commands and die: the list                    *)
(*                Git.repository_list names, Git.fetcher, the GitFetcher   *)
(*                objects and the scheduled event;                         *)
(*   SpecConfig   rehash over a configuration file drawn from a bounded    *)
(*                set of sections;                                         *)
(*   SpecFormat   one call of format_message on a template drawn from a    *)
(*                bounded set;                                             *)
(*   SpecLink     one call of format_link on a link template drawn from a  *)
(*                bounded set.                                             *)
(***************************************************************************)
EXTENDS Integers, Sequences, FiniteSets, TLC

\* ------------------------------------------------------------------ bounds
\* Commits the remotes may add to the tracked branches, all in all.
MaxCommits == 3
\* Fetch failures that may sit in one repository's error queue.
MaxErrors == 1
\* Largest value of maxCommitsAtOnce and of the count argument of `log`.
MaxCap == 3

\* ------------------------------------------------------ the configuration
\* self.repository_list: the repositories of the ini file, in section order.
repository_list == <<1, 2>>

Repos == {repository_list[i] : i \in 1..Len(repository_list)}

NumRepos == Len(repository_list)

Channels == {"#test", "#somewhere", "#unused"}

\* world.ircs, in order.
Ircs == <<"net1">>

\* The line break.
LF == "\n"

\* Repository.__init__: the fields read from a section's options.
RepoConfig ==
  [r \in Repos |->
     IF r = 1
     THEN [ short_name     |-> <<"t", "1">>,
            long_name      |-> <<"R", "1">>,
            url            |-> <<"u", "1">>,
            branch         |-> <<"o", "/", "m">>,
            channels       |-> <<"#test">>,
            commit_link    |-> <<"h", "/", "%", "c">>,
            commit_message |-> <<"[", "%", "s", "|", "%", "b", "|", "%", "a", "]", " ", "%", "m">>,
            commit_reply   |-> <<"%", "c", " ", "%", "m", LF, "%", "l">> ]
     ELSE [ short_name     |-> <<"t", "2">>,
            long_name      |-> <<"R", "2">>,
            url            |-> <<"u", "2">>,
            branch         |-> <<"o", "/", "f">>,
            channels       |-> <<"#test", "#somewhere">>,
            commit_link    |-> <<>>,
            commit_message |-> <<"[", "%", "s", "|", "%", "b", "|", "%", "a", "]", " ", "%", "m">>,
            commit_reply   |-> <<>> ] ]

\* The set of a sequence's elements.
Range(s) == {s[i] : i \in 1..Len(s)}

None == "None"

\* The threads of control.
FETCHER == "fetcher"
MAIN == "main"
COMMAND == "command"

VARIABLES
  GIT_API_VERSION, \* the GitPython API in use (1 or 3)
  tip,             \* tip[r]: the mirror's commit of the tracked branch
  last_commit,     \* Repository.last_commit
  errors,          \* Repository.errors
  lock,            \* Repository.lock: [owner, count] of the RLock
  shutdown,        \* GitFetcher.shutdown
  fetcherPc,       \* where GitFetcher.run stands
  fetcherIdx,      \* its position in repository_list
  pollPc,          \* where Git._poll stands
  pollIdx,         \* its position in repository_list
  pollTargets,     \* its local `targets`
  pollJoined,      \* irc.state.channels as read for those targets
  snarf,           \* where Git._snarf stands in its loop, with its locals
  emitted,         \* what the last step handed to the outside
  returned,        \* history: returned[r][c], times get_new_commits returned c
  fresh,           \* history: the get_new_commits calls that returned since
                   \* the last fetch of the repository, counted up to 2
  lists,           \* the list objects _read_config has made, by identity
  self_repository_list, \* Git.repository_list: the list object it names
  fetcher,         \* Git.fetcher: None or a GitFetcher
  threads,         \* the GitFetcher objects made: repository_list, period,
                   \* shutdown and where run() stands
  schedule,        \* the periods of the events in supybot.schedule named
                   \* self.name()
  pollPeriod,      \* the pollPeriod setting of the registry
  caller,          \* where rehash (COMMAND) and _poll (MAIN) stand in
                   \* _stop_polling, _read_config and _schedule_next_event
  seen,            \* the repository list a command or a poll run last read
  config_file,     \* the sections of configFile with their options
  decided,         \* history: the pollPeriod the last _schedule_next_event
                   \* read
  format_call,     \* a call of format_message or of format_link: repository,
                   \* commit and the template (format_str or commit_link)
  format_result    \* what the call came to

vars == <<GIT_API_VERSION, tip, last_commit, errors, lock, shutdown,
          fetcherPc, fetcherIdx, pollPc, pollIdx, pollTargets, pollJoined,
          snarf,
          emitted, returned, fresh,
          lists, self_repository_list, fetcher, threads, schedule,
          pollPeriod, caller, seen, config_file, decided, format_call,
          format_result>>

\* What a step of the fetcher leaves alone, and so on.
pollVars == <<pollPc, pollIdx, pollTargets, pollJoined>>

fetcherVars == <<fetcherPc, fetcherIdx, shutdown>>

historyVars == <<returned, fresh>>

\* A call of format_message or of format_link by itself.
formatVars == <<format_call, format_result>>

\* The plugin object, its fetcher threads and its scheduled event.
lifeVars == <<lists, self_repository_list, fetcher, threads, schedule,
              pollPeriod, caller, seen, config_file, decided>>

\* ------------------------------------------------------------ text helpers
\* s[a..b] for 1-based positions, empty when a > b.
Slice(s, a, b) == IF a > b THEN <<>> ELSE SubSeq(s, a, b)

\* Python's s[start:] for a list or a string: a negative start counts from
\* the end, and both ends are clamped.  Positions are 0-based, as in Python.
PySliceFrom(s, start) ==
  LET n == Len(s)
      b == IF start < 0 THEN (IF start + n < 0 THEN 0 ELSE start + n)
           ELSE (IF start > n THEN n ELSE start)
  IN  Slice(s, b + 1, n)

\* Python's s[:stop], stop >= 0.
PySliceTo(s, stop) == Slice(s, 1, IF stop > Len(s) THEN Len(s) ELSE stop)

\* The list left in the order it came in.
NotReversed(s) == s

\* Python's s[::-1].
RECURSIVE Reverse(_)
Reverse(s) == IF s = <<>> THEN <<>> ELSE Reverse(Tail(s)) \o <<Head(s)>>

\* Python's s.rfind(c): the 0-based position of the last c, or -1.
RFind(s, c) ==
  LET hits == {i \in 1..Len(s) : s[i] = c}
  IN  IF hits = {} THEN -1 ELSE (CHOOSE i \in hits : \A j \in hits : j <= i) - 1

\* Python's s.split(c): always at least one piece.
RECURSIVE Split(_, _)
Split(s, c) ==
  LET hits == {i \in 1..Len(s) : s[i] = c}
  IN  IF hits = {} THEN <<s>>
      ELSE LET i == CHOOSE k \in hits : \A j \in hits : k <= j
           IN  <<Slice(s, 1, i - 1)>> \o Split(Slice(s, i + 1, Len(s)), c)

\* The concatenation of a sequence of sequences.
RECURSIVE Concat(_)
Concat(ss) == IF ss = <<>> THEN <<>> ELSE Head(ss) \o Concat(Tail(ss))

\* ------------------------------------------------------------- the commits
\* What the backend's commit objects hold (author.name, author.email,
\* hexsha / id, message).  Commit 2 has a message of two lines.
HexDigits == <<"0", "1", "2", "3", "4", "5", "6", "7",
               "8", "9", "a", "b", "c", "d", "e", "f">>

ShaLen == 40

CommitSha(c) == [i \in 1..ShaLen |-> HexDigits[((c * 7 + i * (c + 1)) % 16) + 1]]

CommitAuthorName(c) == IF c % 2 = 0 THEN <<"j", "s">> ELSE <<"n", "s">>

CommitAuthorEmail(c) == CommitAuthorName(c) \o <<"@", "w">>

CommitMessage(c) ==
  IF c = 2 THEN <<"l", "o", "n", "g", LF, "m", "o", "r", "e">>
  ELSE <<"f", "i", "x", HexDigits[(c % 16) + 1]>>

\* ------------------------------------------------------------ the renderer
\* Repository.get_commit_id: commit.id (0.1.x) or commit.hexsha (0.3.x).
get_commit_id(api, commit) == CommitSha(commit)

\* format_link gone wrong: the template comes back as it is.
format_link_verbatim(api, commit, rest, escaped, result) == rest

\* Repository.format_link: the two-state scan (escaped or not) of commit_link.
RECURSIVE format_link_scan(_, _, _, _, _)
format_link_scan(api, commit, rest, escaped, result) ==
  IF rest = <<>> THEN result
  ELSE LET c == Head(rest)
       IN  IF escaped
           THEN format_link_scan(api, commit, Tail(rest), FALSE,
                  result \o (IF c = "c" THEN PySliceTo(get_commit_id(api, commit), 7)
                             ELSE IF c = "C" THEN get_commit_id(api, commit)
                             ELSE <<c>>))
           ELSE IF c = "%"
           THEN format_link_scan(api, commit, Tail(rest), TRUE, result)
           ELSE format_link_scan(api, commit, Tail(rest), FALSE, result \o <<c>>)

format_link(api, r, commit) ==
  format_link_scan(api, commit, RepoConfig[r].commit_link, FALSE, <<>>)

\* The scanner states of format_message.
MODE_NORMAL == 0
MODE_SUBST == 1
MODE_COLOR == 2

\* The keys of the substitution table of format_message.
SubstKeys == {"a", "b", "c", "C", "e", "l", "m", "n", "s", "u", "r", "!", "%"}

\* The substitution table of format_message, for repository r and a commit.
subst(api, r, commit, key) ==
  LET cfg == RepoConfig[r]
  IN  CASE key = "a" -> CommitAuthorName(commit)
        [] key = "b" -> PySliceFrom(cfg.branch, RFind(cfg.branch, "/") + 1)
        [] key = "c" -> PySliceTo(get_commit_id(api, commit), 7)
        [] key = "C" -> get_commit_id(api, commit)
        [] key = "e" -> CommitAuthorEmail(commit)
        [] key = "l" -> format_link(api, r, commit)
        [] key = "m" -> Split(CommitMessage(commit), LF)[1]
        [] key = "n" -> cfg.long_name
        [] key = "s" -> cfg.short_name
        [] key = "u" -> cfg.url
        [] key = "r" -> <<"\\x0f">>
        [] key = "!" -> <<"\\x02">>
        [] key = "%" -> <<"%">>

\* One line of the template: the three-state scan, character by character.
RECURSIVE format_line(_, _, _, _, _, _, _)
format_line(api, r, commit, rest, mode, outline, color) ==
  IF rest = <<>> THEN outline
  ELSE LET c == Head(rest)
       IN  IF mode = MODE_SUBST
           THEN IF c \in SubstKeys
                THEN format_line(api, r, commit, Tail(rest), MODE_NORMAL,
                                 outline \o subst(api, r, commit, c), color)
                ELSE IF c = "("
                THEN format_line(api, r, commit, Tail(rest), MODE_COLOR, outline, <<>>)
                ELSE format_line(api, r, commit, Tail(rest), MODE_NORMAL,
                                 outline \o <<c>>, color)
           ELSE IF mode = MODE_COLOR
           THEN IF c = ")"
                THEN format_line(api, r, commit, Tail(rest), MODE_NORMAL,
                                 outline \o <<"\\x03">> \o color, color)
                ELSE format_line(api, r, commit, Tail(rest), MODE_COLOR,
                                 outline, color \o <<c>>)
           ELSE IF c = "%"
           THEN format_line(api, r, commit, Tail(rest), MODE_SUBST, outline, color)
           ELSE format_line(api, r, commit, Tail(rest), MODE_NORMAL,
                            outline \o <<c>>, color)

\* The bytes above 0x7f a template may hold: the configuration file is read
\* into byte strings.
NonAsciiBytes == {"\\xe9"}

\* outline.encode('utf-8') of a byte string: the string is decoded as ASCII
\* first, which raises UnicodeDecodeError at a byte above 0x7f; ASCII text
\* comes back as it is.
encode(outline) ==
  [raised |-> \E i \in 1..Len(outline) : outline[i] \in NonAsciiBytes,
   text   |-> outline]

\* Repository.format_message: the lines for one commit, or the exception of
\* encode; an empty format_str stands for commit_message.
format_message(api, r, commit, format_str) ==
  LET fmt   == IF format_str = <<>> THEN RepoConfig[r].commit_message ELSE format_str
      lines == Split(fmt, LF)
      out   == [i \in 1..Len(lines) |->
                  encode(format_line(api, r, commit, lines[i], MODE_NORMAL,
                                     <<>>, <<>>))]
      raised == \E i \in 1..Len(lines) : out[i].raised
  IN  [raised |-> raised,
       result |-> IF raised THEN <<>> ELSE [i \in 1..Len(lines) |-> out[i].text]]

\* -------------------------------------------------------------- the output
\* A decimal numeral, as "%d" writes it.
RECURSIVE DecimalText(_)
DecimalText(n) ==
  IF n < 0 THEN <<"-">> \o DecimalText(0 - n)
  ELSE IF n < 10 THEN <<HexDigits[n + 1]>>
  ELSE DecimalText(n \div 10) \o <<HexDigits[(n % 10) + 1]>>

\* "Showing latest %d of %d commits to %s..."
SummaryText(k, n, long_name) ==
  <<"S", "h", "o", "w", "i", "n", "g", " ", "l", "a", "t", "e", "s", "t", " ">> \o DecimalText(k) \o <<" ", "o", "f", " ">>
    \o DecimalText(n) \o <<" ", "c", "o", "m", "m", "i", "t", "s", " ", "t", "o", " ">> \o long_name
    \o <<".", ".", ".">>

\* No commit: what `None` stands for where a commit is expected.
NoCommit == -1

\* A line on its way to a channel: ircmsgs.privmsg(channel, line) queued on
\* irc, or irc.reply(line).  repo names the repository the line comes from
\* (0: none) and commit the commit it renders (NoCommit: none).
Msg(irc, chan, r, text) ==
  [irc |-> irc, chan |-> chan, repo |-> r, commit |-> NoCommit, text |-> text]

\* What one step hands to the outside, with the inputs the step read:
\*   op       "poll", "log", "repositories", "snarf", "postpone fetch",
\*            "postpone read" or "none"
\*   repo     the repository the step is about (0: none)
\*   chan     the channel a command came from
\*   name     the short name `log` was called with
\*   arg      the count of `log`, <<>> when absent; the hex word of _snarf,
\*            the commit it abbreviates and its length
\*   flag     the shaSnarfing setting read by _snarf
\*   tried    the repositories _snarf called get_commit on, in order
\*   commits  the commits handed to _display_commits / _reply_commits
\*   raised   get_new_commits ended with an exception
\*   cap      the maxCommitsAtOnce setting read
\*   targets  the (irc, channel) pairs of _poll
\*   joined   irc.state.channels as _poll found it, irc by irc
\*   msgs     the lines sent, in order
\*   log      what log_error wrote
\*   ok       the step ended without an exception
Event(op, r, chan, arg, commits, cap, targets, msgs, log, ok) ==
  [op |-> op, repo |-> r, chan |-> chan, name |-> <<>>, arg |-> arg,
   flag |-> TRUE, tried |-> <<>>, commits |-> commits, raised |-> FALSE,
   cap |-> cap, targets |-> targets, joined |-> <<>>, msgs |-> msgs,
   log |-> log, ok |-> ok]

Quiet == Event("none", 0, "", <<>>, <<>>, 0, <<>>, <<>>, <<>>, TRUE)

\* The info line of an activity that found the lock of r taken:
\* 'Postponing repository fetch: %s: Locked.' / '... read: %s: Locked.'
Postponed(op, r) == Event(op, r, "", <<>>, <<>>, 0, <<>>, <<>>, <<>>, TRUE)

\* Nothing is on its way out: the host has taken what the last step sent.
Ready == emitted = Quiet

\* ---------------------------------------------------------------- the lock
\* threading.RLock(): free for a thread when nobody or the thread itself
\* holds it.
NonReentrantLockFree(lk, t) == lk.owner = None

LockFree(lk, t) == lk.owner = None \/ lk.owner = t

Acquired(lk, t) == [owner |-> t, count |-> lk.count + 1]

\* A release that leaves the lock with its owner.
KeepsLock(lk) == lk

Released(lk) ==
  IF lk.count <= 1 THEN [owner |-> None, count |-> 0]
  ELSE [lk EXCEPT !.count = @ - 1]

\* The `blocking` argument of the two manual acquire calls.
AlwaysBlocking == TRUE

FetcherAcquireBlocking == FALSE

PollAcquireBlocking == FALSE

\* A @synchronized method called by thread t on repository r can run: the
\* decorator acquires, runs the method and releases, all in the step that
\* models the method, once the lock is free for t.
Synchronized(r, t) == LockFree(lock[r], t)

\* ------------------------------------------------------------- the backend
\* The failures git fetch can end with.
FetchErrors == {"GitCommandError"}

\* The range that takes a itself in as well.
RevListFromLast(a, b) == IF b < a THEN <<>> ELSE [i \in 1..(b - a + 1) |-> b + 1 - i]

\* repo.commits_between(a, branch) / repo.iter_commits("a..branch"): the
\* commits after a up to the tip b, newest first.
RevList(a, b) == IF b <= a THEN <<>> ELSE [i \in 1..(b - a) |-> b + 1 - i]

\* The ways Repository.get_new_commits can end.  0.1.x computes the list
\* before last_commit is assigned; 0.3.x gets a lazy iterator and reads it in
\* list(result), after the assignment.
GncOutcomes(api) ==
  IF api = 3 THEN {"ok", "raise_before", "raise_after"} ELSE {"ok", "raise_before"}


\* The mirror's commits reachable from the tip t, newest first: the commits
\* added since the clone and commit 0.
AllCommits(t) == [i \in 1..(t + 1) |-> t + 1 - i]

\* ------------------------------------------------ the Repository methods
\* Each is what the method does between the acquire and the release of its
\* @synchronized decorator: the value returned and the fields it leaves.

\* Repository.get_new_commits with a broken assignment: last_commit is kept.
get_new_commits_keeps_last(api, last, branch_tip, outcome) ==
  [ raised      |-> outcome # "ok",
    last_commit |-> last,
    result      |-> IF outcome = "ok" THEN RevList(last, branch_tip) ELSE <<>> ]

\* Repository.get_new_commits that takes last_commit back to the commit of
\* the clone once it has moved.
get_new_commits_rewinds(api, last, branch_tip, outcome) ==
  [ raised      |-> outcome # "ok",
    last_commit |-> IF last > 0 THEN 0 ELSE branch_tip,
    result      |-> IF outcome = "ok" THEN RevList(last, branch_tip) ELSE <<>> ]

\* Repository.get_new_commits.
get_new_commits(api, last, branch_tip, outcome) ==
  [ raised      |-> outcome # "ok",
    last_commit |-> IF outcome = "raise_before" THEN last ELSE branch_tip,
    result      |-> IF outcome = "ok" THEN RevList(last, branch_tip) ELSE <<>> ]

\* Repository.get_recent_commits that also moves last_commit to the tip.
get_recent_commits_moves_last(api, last, branch_tip, count) ==
  [ result      |-> PySliceTo(AllCommits(branch_tip), count),
    last_commit |-> branch_tip ]

\* Repository.get_recent_commits: repo.commits(start, max_count=count) or
\* list(repo.iter_commits(branch))[:count].
get_recent_commits(api, last, branch_tip, count) ==
  [ result      |-> PySliceTo(AllCommits(branch_tip), count),
    last_commit |-> last ]

\* Repository.get_commit: repo.commit(sha), None when the backend raises
\* ValueError (0.1.x) or GitCommandError (0.3.x) for a sha it does not have.
get_commit(api, last, branch_tip, sha) ==
  [ result      |-> IF sha \in 0..branch_tip THEN sha ELSE NoCommit,
    last_commit |-> last ]

\* Repository.record_error.
record_error(queue, e) == Append(queue, e)

\* A read of the queue that leaves the errors in it.
get_errors_keeps(queue) == [result |-> queue, errors |-> queue]

\* Repository.get_errors: the queue is handed over and emptied.
get_errors(queue) == [result |-> queue, errors |-> <<>>]

\* A run() that returns when it is done with a repository.
FetcherEnds == fetcherPc' = "f_done" /\ fetcherIdx' = 1

\* ------------------------------------------------------------ GitFetcher
\* Where run() goes once repository fetcherIdx is done with.
FetcherAdvance ==
  IF fetcherIdx = NumRepos
  THEN fetcherPc' = "f_sleep" /\ fetcherIdx' = 1
  ELSE fetcherPc' = "f_for" /\ fetcherIdx' = fetcherIdx + 1

\* for repository in self.repository_list: ... lock.acquire(blocking=False);
\* when the lock is not to be had, log_info and the next repository.
FetcherTry ==
  /\ Ready
  /\ fetcherPc = "f_for"
  /\ ~shutdown
  /\ LET r == repository_list[fetcherIdx]
     IN  IF LockFree(lock[r], FETCHER)
         THEN /\ lock' = [lock EXCEPT ![r] = Acquired(@, FETCHER)]
              /\ fetcherPc' = "f_fetch"
              /\ fetcherIdx' = fetcherIdx
              /\ emitted' = Quiet
         ELSE /\ ~FetcherAcquireBlocking
              /\ lock' = lock
              /\ FetcherAdvance
              /\ emitted' = Postponed("postpone fetch", r)
  /\ UNCHANGED <<GIT_API_VERSION, lifeVars, formatVars, tip, last_commit, errors, shutdown,
                 pollVars, snarf, historyVars>>

\* A loop that does not test the flag per repository: the repository at hand
\* is taken up although the thread was asked to stop.
FetcherGoesOn ==
  /\ Ready
  /\ fetcherPc = "f_for"
  /\ shutdown
  /\ LockFree(lock[repository_list[fetcherIdx]], FETCHER)
  /\ lock' = [lock EXCEPT ![repository_list[fetcherIdx]] = Acquired(@, FETCHER)]
  /\ fetcherPc' = "f_fetch"
  /\ fetcherIdx' = fetcherIdx
  /\ emitted' = Quiet
  /\ UNCHANGED <<GIT_API_VERSION, lifeVars, formatVars, tip, last_commit, errors, shutdown,
                 pollVars, snarf, historyVars>>

\* if self.shutdown: break -- then the wait loop and the while test, which
\* shutdown ends at once.
FetcherBreak ==
  /\ Ready
  /\ fetcherPc = "f_for"
  /\ shutdown
  /\ fetcherPc' = "f_done"
  /\ fetcherIdx' = 1
  /\ emitted' = Quiet
  /\ UNCHANGED <<GIT_API_VERSION, lifeVars, formatVars, tip, last_commit, errors, lock, shutdown,
                 pollVars, snarf, historyVars>>

\* The commits all the mirrors hold beyond their clones.
RECURSIVE SumTips(_, _)
SumTips(t, rs) ==
  IF rs = {} THEN 0
  ELSE LET r == CHOOSE x \in rs : TRUE IN t[r] + SumTips(t, rs \ {r})

\* repository.fetch() under the lock just taken: git fetch moves the mirror's
\* branch to whatever the remote has by now, or raises and the exception is
\* recorded; the lock is released either way.
FetcherFetch ==
  /\ Ready
  /\ fetcherPc = "f_fetch"
  /\ LET r == repository_list[fetcherIdx]
     IN  /\ Synchronized(r, FETCHER)
         /\ \/ \E n \in tip[r]..MaxCommits :
                 /\ SumTips(tip, Repos) - tip[r] + n <= MaxCommits
                 /\ tip' = [tip EXCEPT ![r] = n]
                 /\ errors' = errors
            \/ \E e \in FetchErrors :
                 /\ Len(errors[r]) < MaxErrors
                 /\ errors' = [errors EXCEPT ![r] = record_error(@, e)]
                 /\ tip' = tip
         /\ lock' = [lock EXCEPT ![r] = Released(@)]
         /\ fresh' = [fresh EXCEPT ![r] = 0]
  /\ FetcherAdvance
  /\ emitted' = Quiet
  /\ UNCHANGED <<GIT_API_VERSION, lifeVars, formatVars, last_commit, shutdown, pollVars, snarf,
                 returned>>

\* A wait for the next period that a request to stop does not end.
FetcherSleepsOn ==
  /\ Ready
  /\ fetcherPc = "f_sleep"
  /\ fetcherPc' = IF shutdown THEN "f_sleep" ELSE "f_for"
  /\ emitted' = Quiet
  /\ UNCHANGED <<GIT_API_VERSION, lifeVars, formatVars, tip, last_commit, errors, lock,
                 shutdown, fetcherIdx, pollVars, snarf, historyVars>>

\* The wait for the next period, left at its end or on shutdown.
FetcherSleep ==
  /\ Ready
  /\ fetcherPc = "f_sleep"
  /\ fetcherPc' = IF shutdown THEN "f_done" ELSE "f_for"
  /\ emitted' = Quiet
  /\ UNCHANGED <<GIT_API_VERSION, lifeVars, formatVars, tip, last_commit, errors, lock, shutdown,
                 fetcherIdx, pollVars, snarf, historyVars>>

\* ------------------------------------------- the display and reply paths
\* The values the registry admits for maxCommitsAtOnce (NonNegativeInteger),
\* up to the bound.
CapValues == 0..MaxCap

\* The lines of the commits, one commit after the other, each line a message
\* to chan on irc.
RECURSIVE CommitMsgs(_, _, _, _, _, _)
CommitMsgs(api, r, irc, chan, commits, format_str) ==
  IF commits = <<>> THEN <<>>
  ELSE LET lines == format_message(api, r, Head(commits), format_str).result
       IN  [i \in 1..Len(lines) |->
              [Msg(irc, chan, r, lines[i]) EXCEPT !.commit = Head(commits)]]
           \o CommitMsgs(api, r, irc, chan, Tail(commits), format_str)

\* commits[-commits_at_once:]
ShownCommits(commits, commits_at_once) == PySliceFrom(commits, 0 - commits_at_once)

\* Git._display_commits: what it queues on irc for channel when it runs to
\* its end.
display_commits(api, irc, chan, r, commits, commits_at_once) ==
  (IF Len(commits) > commits_at_once
   THEN <<Msg(irc, chan, r,
              SummaryText(commits_at_once, Len(commits), RepoConfig[r].long_name))>>
   ELSE <<>>)
  \o CommitMsgs(api, r, irc, chan, ShownCommits(commits, commits_at_once), <<>>)

\* format_str = repository.commit_reply or repository.commit_message
ReplyFormat(r) ==
  IF RepoConfig[r].commit_reply # <<>> THEN RepoConfig[r].commit_reply
  ELSE RepoConfig[r].commit_message

\* Git._reply_commits: what it replies to channel.
reply_commits(api, irc, chan, r, commits, commits_at_once) ==
  (IF Len(commits) > commits_at_once
   THEN <<Msg(irc, chan, r,
              SummaryText(commits_at_once, Len(commits), RepoConfig[r].long_name))>>
   ELSE <<>>)
  \o CommitMsgs(api, r, irc, chan, ShownCommits(commits, commits_at_once),
                ReplyFormat(r))

\* ------------------------------------------------------------- Git._poll
\* The channels _poll asks irc.state.channels about: those of the
\* repositories.
ConfiguredChannels == UNION {Range(RepoConfig[r].channels) : r \in Repos}

\* What irc.state.channels can hold of them for each network of world.ircs:
\* the bot may be in any of these channels.
JoinedStates == [Range(Ircs) -> SUBSET ConfiguredChannels]

\* The (irc, channel) pairs _poll notifies for repository r: irc by irc, the
\* repository's channels in their order, those the bot is in.
RECURSIVE TargetsOn(_, _, _)
TargetsOn(irc, chans, there) ==
  IF chans = <<>> THEN <<>>
  ELSE (IF Head(chans) \in there THEN <<[irc |-> irc, chan |-> Head(chans)]>> ELSE <<>>)
       \o TargetsOn(irc, Tail(chans), there)

Targets(r, j) ==
  Concat([i \in 1..Len(Ircs) |-> TargetsOn(Ircs[i], RepoConfig[r].channels, j[Ircs[i]])])

\* for irc, channel in targets: self._display_commits(...)
RECURSIVE DisplayAll(_, _, _, _, _)
DisplayAll(api, r, targets, commits, commits_at_once) ==
  IF targets = <<>> THEN <<>>
  ELSE display_commits(api, Head(targets).irc, Head(targets).chan, r, commits,
                       commits_at_once)
       \o DisplayAll(api, r, Tail(targets), commits, commits_at_once)

\* A poll run that gives up its loop when it is done with a repository.
PollAbandons ==
  /\ pollTargets' = <<>>
  /\ pollJoined' = <<>>
  /\ pollPc' = "p_sched"
  /\ pollIdx' = 1

\* Where _poll goes once repository pollIdx is done with.
PollAdvance ==
  /\ pollTargets' = <<>>
  /\ pollJoined' = <<>>
  /\ IF pollIdx = NumRepos
     THEN pollPc' = "p_sched" /\ pollIdx' = 1
     ELSE pollPc' = "p_for" /\ pollIdx' = pollIdx + 1

\* The scheduler runs the event added by _schedule_next_event.
PollStart ==
  /\ Ready
  /\ pollPc = "p_idle"
  /\ pollPc' = "p_for"
  /\ pollIdx' = 1
  /\ emitted' = Quiet
  /\ UNCHANGED <<GIT_API_VERSION, lifeVars, formatVars, tip, last_commit, errors, lock,
                 fetcherVars, pollTargets, pollJoined, snarf, historyVars>>

\* A loop body without `if not targets: continue`: the lock is tried for
\* whatever the targets are.
PollTryUntested ==
  /\ Ready
  /\ pollPc = "p_for"
  /\ \E j \in JoinedStates :
       LET r       == repository_list[pollIdx]
           targets == Targets(r, j)
       IN  IF LockFree(lock[r], MAIN)
           THEN /\ lock' = [lock EXCEPT ![r] = Acquired(@, MAIN)]
                /\ pollPc' = "p_locked"
                /\ pollIdx' = pollIdx
                /\ pollTargets' = targets
                /\ pollJoined' = j
                /\ emitted' = Quiet
           ELSE /\ lock' = lock
                /\ PollAdvance
                /\ emitted' = Postponed("postpone read", r)
  /\ UNCHANGED <<GIT_API_VERSION, lifeVars, formatVars, tip, last_commit, errors, fetcherVars,
                 snarf, historyVars>>

\* The head of the loop body: the targets, `continue` when there is none,
\* else repository.lock.acquire(blocking=False), and the next repository
\* when the lock is not to be had.
PollTry ==
  /\ Ready
  /\ pollPc = "p_for"
  /\ \E j \in JoinedStates :
       LET r       == repository_list[pollIdx]
           targets == Targets(r, j)
       IN  IF targets = <<>>
           THEN /\ lock' = lock
                /\ PollAdvance
                /\ emitted' = Quiet
           ELSE IF LockFree(lock[r], MAIN)
           THEN /\ lock' = [lock EXCEPT ![r] = Acquired(@, MAIN)]
                /\ pollPc' = "p_locked"
                /\ pollIdx' = pollIdx
                /\ pollTargets' = targets
                /\ pollJoined' = j
                /\ emitted' = Quiet
           ELSE /\ ~PollAcquireBlocking
                /\ lock' = lock
                /\ PollAdvance
                /\ emitted' = Postponed("postpone read", r)
  /\ UNCHANGED <<GIT_API_VERSION, lifeVars, formatVars, tip, last_commit, errors, fetcherVars,
                 snarf, historyVars>>

\* How often each commit was returned, the commits of result once more,
\* counted up to 2.
CountReturned(count, result) ==
  [c \in 1..MaxCommits |->
     IF c \in Range(result) /\ count[c] < 2 THEN count[c] + 1 ELSE count[c]]

\* The locked section of _poll when get_new_commits returns:
\*   errors = repository.get_errors(), each logged;
\*   commits = repository.get_new_commits()[::-1];
\*   for irc, channel in targets: self._display_commits(...)
\* and the `finally` releases the lock.  The rendering of a commit may raise
\* (format_message): the lines before it were queued for the first target,
\* the exception is logged, the other targets get nothing.
PollDeliver ==
  /\ Ready
  /\ pollPc = "p_locked"
  /\ LET r       == repository_list[pollIdx]
         g       == get_new_commits(GIT_API_VERSION, last_commit[r], tip[r], "ok")
         commits == Reverse(g.result)
         errs    == get_errors(errors[r])
     IN  /\ Synchronized(r, MAIN)
         /\ errors' = [errors EXCEPT ![r] = errs.errors]
         /\ last_commit' = [last_commit EXCEPT ![r] = g.last_commit]
         /\ returned' = [returned EXCEPT ![r] = CountReturned(@, g.result)]
         /\ fresh' = [fresh EXCEPT ![r] = IF @ < 2 THEN @ + 1 ELSE @]
         /\ \E cap \in CapValues :
              \/ emitted' = [Event("poll", r, "", <<>>, commits, cap, pollTargets,
                                   DisplayAll(GIT_API_VERSION, r, pollTargets,
                                              commits, cap),
                                   errs.result, TRUE)
                               EXCEPT !.joined = pollJoined]
              \/ \E k \in 1..Len(ShownCommits(commits, cap)) :
                   LET shown == ShownCommits(commits, cap)
                       full  == display_commits(GIT_API_VERSION, pollTargets[1].irc,
                                  pollTargets[1].chan, r, commits, cap)
                       rest  == CommitMsgs(GIT_API_VERSION, r, pollTargets[1].irc,
                                  pollTargets[1].chan, Slice(shown, k, Len(shown)),
                                  <<>>)
                   IN  emitted' =
                         [Event("poll", r, "", <<>>, commits, cap, pollTargets,
                                Slice(full, 1, Len(full) - Len(rest)),
                                errs.result \o <<"Exception in _poll repository">>,
                                FALSE)
                            EXCEPT !.joined = pollJoined]
         /\ lock' = [lock EXCEPT ![r] = Released(@)]
  /\ PollAdvance
  /\ UNCHANGED <<GIT_API_VERSION, lifeVars, formatVars, tip, fetcherVars, snarf>>

\* The locked section of _poll when get_new_commits raises: the errors were
\* drained and logged, the exception is logged, the lock released.
PollRaise ==
  /\ Ready
  /\ pollPc = "p_locked"
  /\ LET r    == repository_list[pollIdx]
         errs == get_errors(errors[r])
     IN  /\ Synchronized(r, MAIN)
         /\ errors' = [errors EXCEPT ![r] = errs.errors]
         /\ \E outcome \in GncOutcomes(GIT_API_VERSION) \ {"ok"} :
              LET g == get_new_commits(GIT_API_VERSION, last_commit[r], tip[r], outcome)
              IN  last_commit' = [last_commit EXCEPT ![r] = g.last_commit]
         /\ emitted' = [Event("poll", r, "", <<>>, <<>>, 0, pollTargets, <<>>,
                              errs.result \o <<"Exception in _poll repository">>,
                              FALSE)
                          EXCEPT !.raised = TRUE, !.joined = pollJoined]
         /\ lock' = [lock EXCEPT ![r] = Released(@)]
  /\ PollAdvance
  /\ UNCHANGED <<GIT_API_VERSION, lifeVars, formatVars, tip, fetcherVars, snarf, historyVars>>

\* The default of the pollPeriod setting.
DefaultPollPeriod == 120

\* The values of pollPeriod _schedule_next_event may find in the registry.
PollPeriods == {0, DefaultPollPeriod}

\* Git._schedule_next_event at the end of _poll: with a period above 0 a
\* fetcher is started unless one is alive, and the next _poll is scheduled;
\* with 0, _stop_polling asks the fetcher to stop and joins it.
PollSchedule ==
  /\ Ready
  /\ pollPc = "p_sched"
  /\ \E period \in PollPeriods :
       IF period > 0
       THEN /\ IF fetcherPc \in {"f_none", "f_done"}
               THEN fetcherPc' = "f_for" /\ fetcherIdx' = 1 /\ shutdown' = FALSE
               ELSE UNCHANGED <<fetcherPc, fetcherIdx, shutdown>>
            /\ pollPc' = "p_idle"
       ELSE /\ IF fetcherPc = "f_none"
               THEN pollPc' = "p_off" /\ shutdown' = shutdown
               ELSE pollPc' = "p_join" /\ shutdown' = TRUE
            /\ UNCHANGED <<fetcherPc, fetcherIdx>>
  /\ emitted' = Quiet
  /\ UNCHANGED <<GIT_API_VERSION, lifeVars, formatVars, tip, last_commit, errors, lock, pollIdx,
                 pollTargets, pollJoined, snarf, historyVars>>

\* self.fetcher.join() returns once the thread has ended; then
\* self.fetcher = None, and the event, already run, is not there to remove.
PollJoin ==
  /\ Ready
  /\ pollPc = "p_join"
  /\ fetcherPc = "f_done"
  /\ fetcherPc' = "f_none"
  /\ pollPc' = "p_off"
  /\ emitted' = Quiet
  /\ UNCHANGED <<GIT_API_VERSION, lifeVars, formatVars, tip, last_commit, errors, lock, shutdown,
                 fetcherIdx, pollIdx, pollTargets, pollJoined, snarf,
                 historyVars>>

\* ----------------------------------------------------------- the commands
\* Commands and the snarfer run on threads of their own (threaded = True).
\* A command whose lines depend on one synchronized read only is one step,
\* taken when the lock it waits for is free: what it sends is fixed by that
\* read and by the configuration.

\* The help of `log`, sent when its arguments do not convert.
LogUsage ==
  <<"(", "\\x02", "l", "o", "g", " ", "<", "s", "h", "o", "r", "t", " ", "n",
    "a", "m", "e", ">", " ", "[", "c", "o", "u", "n", "t", "]", "\\x02",
    ")", " ", "-", "-", " ", "D", "i", "s", "p", "l", "a", "y", " ", "t",
    "h", "e", " ", "l", "a", "s", "t", " ", "c", "o", "m", "m", "i", "t",
    "s", " ", "o", "n", " ", "t", "h", "e", " ", "n", "a", "m", "e", "d",
    " ", "r", "e", "p", "o", "s", "i", "t", "o", "r", "y", ".", " ", "[",
    "c", "o", "u", "n", "t", "]", " ", "d", "e", "f", "a", "u", "l", "t",
    "s", " ", "t", "o", " ", "1", " ", "i", "f", " ", "u", "n", "s", "p",
    "e", "c", "i", "f", "i", "e", "d", ".">>

\* 'No configured repository named %s.'
NoRepositoryText(name) ==
  <<"N", "o", " ", "c", "o", "n", "f", "i", "g", "u", "r", "e", "d", " ",
    "r", "e", "p", "o", "s", "i", "t", "o", "r", "y", " ", "n", "a", "m",
    "e", "d", " ">>
    \o name \o <<".">>

\* 'Sorry, not allowed in this channel.'
NotAllowedText ==
  <<"S", "o", "r", "r", "y", ",", " ", "n", "o", "t", " ", "a", "l", "l",
    "o", "w", "e", "d", " ", "i", "n", " ", "t", "h", "i", "s", " ", "c",
    "h", "a", "n", "n", "e", "l", ".">>

\* 'No repositories configured for this channel.'
NoRepositoriesText ==
  <<"N", "o", " ", "r", "e", "p", "o", "s", "i", "t", "o", "r", "i", "e",
    "s", " ", "c", "o", "n", "f", "i", "g", "u", "r", "e", "d", " ", "f",
    "o", "r", " ", "t", "h", "i", "s", " ", "c", "h", "a", "n", "n", "e",
    "l", ".">>

\* The names `log` is called with: the short names and one that is not.
LogNames == {RepoConfig[r].short_name : r \in Repos} \cup {<<"n", "o">>}

\* The count argument of `log`: absent, or an integer.
LogCountArgs == {<<>>} \cup {<<n>> : n \in (0 - 1)..MaxCap}

\* The converter that takes 0 for a count as well.
nonNegativeInt(n) == n >= 0

\* The 'positiveInt' converter of the wrap of _log.
positiveInt(n) == n > 0

\* filter(lambda r: r.short_name == name, self.repository_list)
RepositoriesNamed(name) ==
  LET keep(r) == RepoConfig[r].short_name = name
  IN  SelectSeq(repository_list, keep)

\* The filter that keeps every repository, whatever the channel.
RepositoriesAnywhere(chan) == repository_list

\* filter(lambda r: channel in r.channels, self.repository_list)
RepositoriesFor(chan) ==
  LET keep(r) == chan \in Range(RepoConfig[r].channels)
  IN  SelectSeq(repository_list, keep)

\* The privacy test that lets every channel through.
AllowedAnywhere(chan, r) == TRUE

\* channel in repository.channels
AllowedIn(chan, r) == chan \in Range(RepoConfig[r].channels)

\* Git._log behind its wrap(['channel', 'somethingWithoutSpaces',
\* optional('positiveInt', 1)]): a count that does not convert is left over
\* and the command answers with its help.
CmdLog ==
  \E irc \in Range(Ircs), chan \in Channels, name \in LogNames, arg \in LogCountArgs :
    LET count   == IF arg = <<>> THEN 1 ELSE arg[1]
        matches == RepositoriesNamed(name)
        here    == <<[irc |-> irc, chan |-> chan]>>
    IN  /\ Ready
        /\ IF ~positiveInt(count)
           THEN /\ emitted' = [Event("log", 0, chan, arg, <<>>, 0, here,
                                     <<Msg(irc, chan, 0, LogUsage)>>, <<>>, TRUE)
                                 EXCEPT !.name = name]
                /\ last_commit' = last_commit
           ELSE IF matches = <<>>
           THEN /\ emitted' = [Event("log", 0, chan, arg, <<>>, 0, here,
                                     <<Msg(irc, chan, 0, NoRepositoryText(name))>>,
                                     <<>>, TRUE)
                                 EXCEPT !.name = name]
                /\ last_commit' = last_commit
           ELSE IF ~AllowedIn(chan, matches[1])
           THEN /\ emitted' = [Event("log", matches[1], chan, arg, <<>>, 0, here,
                                     <<Msg(irc, chan, 0, NotAllowedText)>>, <<>>, TRUE)
                                 EXCEPT !.name = name]
                /\ last_commit' = last_commit
           ELSE LET r  == matches[1]
                    rc == get_recent_commits(GIT_API_VERSION, last_commit[r],
                                             tip[r], count)
                    commits == Reverse(rc.result)
                IN  /\ Synchronized(r, COMMAND)
                    /\ last_commit' = [last_commit EXCEPT ![r] = rc.last_commit]
                    /\ \E cap \in CapValues :
                         emitted' = [Event("log", r, chan, arg, commits, cap, here,
                                           reply_commits(GIT_API_VERSION, irc, chan,
                                                         r, commits, cap),
                                           <<>>, TRUE)
                                       EXCEPT !.name = name]
        /\ UNCHANGED <<GIT_API_VERSION, lifeVars, formatVars, tip, errors, lock, fetcherVars, pollVars,
                       snarf, historyVars>>

\* '\x02%(short_name)s\x02 (%(name)s, branch: %(branch)s)'
RepositoryLine(r) ==
  LET cfg   == RepoConfig[r]
      parts == Split(cfg.branch, "/")
  IN  <<"\\x02">> \o cfg.short_name \o <<"\\x02", " ", "(">> \o cfg.long_name
        \o <<",", " ", "b", "r", "a", "n", "c", "h", ":", " ">>
        \o parts[Len(parts)] \o <<")">>

\* Git.repositories
CmdRepositories ==
  \E irc \in Range(Ircs), chan \in Channels :
    LET repositories == RepositoriesFor(chan)
    IN  /\ Ready
        /\ emitted' =
             Event("repositories", 0, chan, <<>>, <<>>, 0,
                   <<[irc |-> irc, chan |-> chan]>>,
                   IF repositories = <<>>
                   THEN <<Msg(irc, chan, 0, NoRepositoriesText)>>
                   ELSE [i \in 1..Len(repositories) |->
                           Msg(irc, chan, repositories[i],
                               RepositoryLine(repositories[i]))],
                   <<>>, TRUE)
        /\ UNCHANGED <<GIT_API_VERSION, lifeVars, formatVars, tip, last_commit, errors, lock,
                       fetcherVars, pollVars, snarf, historyVars>>

\* The commits whose sha a message may hold: one the remotes may add, and
\* a hex word that is no commit anywhere.
SnarfShas == {1, NoCommit}

\* The hex words of a message: their length and the commit they abbreviate.
SnarfTokens == [len : {5, 6, ShaLen + 1}, sha : SnarfShas]

\* The regexp that takes a hex word of any length.
SnarfAnyLength(token) == TRUE

\* r"""\b(?P<sha>[0-9a-f]{6,40})\b"""
SnarfRegexp(token) == token.len >= 6 /\ token.len <= ShaLen

\* _snarf outside its loop.
SnarfIdle ==
  [pc |-> "idle", irc |-> "", chan |-> "", sha |-> NoCommit, len |-> 0, idx |-> 1]

\* One turn of `for repository in repositories` for the idx-th repository of
\* the channel: get_commit, and on a commit _reply_commits and `break`.
SnarfVisit(irc, chan, token, idx) ==
  LET repositories == RepositoriesFor(chan)
      r  == repositories[idx]
      gc == get_commit(GIT_API_VERSION, last_commit[r], tip[r], token.sha)
      ev(msgs, cap, who, commits) ==
        [Event("snarf", who, chan, <<token.sha, token.len>>, commits, cap,
               <<[irc |-> irc, chan |-> chan]>>, msgs, <<>>, TRUE)
           EXCEPT !.tried = Slice(repositories, 1, idx)]
  IN  /\ Synchronized(r, COMMAND)
      /\ last_commit' = [last_commit EXCEPT ![r] = gc.last_commit]
      /\ IF gc.result # NoCommit
         THEN /\ snarf' = SnarfIdle
              /\ \E cap \in CapValues :
                   emitted' = ev(reply_commits(GIT_API_VERSION, irc, chan, r,
                                               <<gc.result>>, cap),
                                 cap, r, <<gc.result>>)
         ELSE IF idx < Len(repositories)
         THEN /\ snarf' = [pc |-> "loop", irc |-> irc, chan |-> chan,
                           sha |-> token.sha, len |-> token.len, idx |-> idx + 1]
              /\ emitted' = Quiet
         ELSE /\ snarf' = SnarfIdle
              /\ emitted' = ev(<<>>, 0, 0, <<>>)

\* Git._snarf is called for a hex word the regexp matches: nothing when
\* shaSnarfing is off or the channel has no repository, else the loop.
SnarfStart ==
  /\ Ready
  /\ snarf = SnarfIdle
  /\ \E irc \in Range(Ircs), chan \in Channels, token \in SnarfTokens,
        shaSnarfing \in BOOLEAN :
       IF ~SnarfRegexp(token) \/ ~shaSnarfing \/ RepositoriesFor(chan) = <<>>
       THEN /\ emitted' = [Event("snarf", 0, chan, <<token.sha, token.len>>, <<>>, 0,
                                 <<[irc |-> irc, chan |-> chan]>>, <<>>, <<>>, TRUE)
                             EXCEPT !.flag = shaSnarfing]
            /\ UNCHANGED <<snarf, last_commit>>
       ELSE SnarfVisit(irc, chan, token, 1)
  /\ UNCHANGED <<GIT_API_VERSION, lifeVars, formatVars, tip, errors, lock, fetcherVars, pollVars,
                 historyVars>>

\* The next turn of the loop, once the lock of its repository is free.
SnarfLoop ==
  /\ Ready
  /\ snarf.pc = "loop"
  /\ SnarfVisit(snarf.irc, snarf.chan, [len |-> snarf.len, sha |-> snarf.sha],
                snarf.idx)
  /\ UNCHANGED <<GIT_API_VERSION, lifeVars, formatVars, tip, errors, lock, fetcherVars, pollVars,
                 historyVars>>

\* self.fetcher = None.
NoFetcher == 0

\* A section of the configuration file: its option names, among them one
\* that Repository.__init__ does not know, and the value of 'short name'
\* (read only when the option is there).
Sections ==
  [options : SUBSET {"short name", "url", "channels", "colour"},
   short_name : {"t1", "t2"}]

\* The file of the repositories above: one section each, every option the
\* plugin needs, the short names of RepoConfig.
StandardConfig ==
  <<[options |-> {"short name", "url", "channels"}, short_name |-> "t1"],
    [options |-> {"short name", "url", "channels"}, short_name |-> "t2"]>>

\* Repository.__init__ up to clone(): a required value missing or an
\* unrecognized value raises, and so does .split() of the None that
\* options.get gives when neither 'channels' nor 'channel' is there.
SectionRaises(section) ==
  \/ ~({"short name", "url"} \subseteq section.options)
  \/ ~(section.options \subseteq {"short name", "url", "branch", "channel",
                                   "channels", "commit link",
                                   "commit message", "commit reply"})
  \/ "channels" \notin section.options

\* The plugin object as the specifications of the repositories leave it:
\* they follow the fetcher and the poll runs by fetcherPc and pollPc.
LifeAtRest ==
  /\ lists = <<repository_list>>
  /\ self_repository_list = 1
  /\ fetcher = NoFetcher
  /\ threads = <<>>
  /\ schedule = {}
  /\ pollPeriod = DefaultPollPeriod
  /\ caller = [c \in {COMMAND, MAIN} |->
                [at |-> "idle", idx |-> 1, list |-> 0, after |-> "idle",
                 joining |-> 0, reply |-> <<>>, count |-> 0,
                 before |-> [list |-> <<>>, fetching |-> FALSE,
                             scheduled |-> FALSE]]]
  /\ seen = repository_list
  /\ config_file = StandardConfig
  /\ decided = DefaultPollPeriod

\* No call of format_message is looked at by itself.
FormatAtRest ==
  /\ format_call = [repository |-> 0, commit |-> 0, format_str |-> <<>>]
  /\ format_result = [done |-> FALSE, raised |-> FALSE, result |-> <<>>]

\* ------------------------------------------------------ the specification
\* The state Git.__init__ leaves: every repository cloned, last_commit at the
\* branch tip, and - with a pollPeriod above 0 - a fetcher started and the
\* first _poll scheduled.
Init ==
  /\ LifeAtRest
  /\ FormatAtRest
  /\ GIT_API_VERSION \in {1, 3}
  /\ tip = [r \in Repos |-> 0]
  /\ last_commit = [r \in Repos |-> 0]
  /\ errors = [r \in Repos |-> <<>>]
  /\ lock = [r \in Repos |-> [owner |-> None, count |-> 0]]
  /\ shutdown = FALSE
  /\ \E period \in PollPeriods :
       IF period > 0
       THEN fetcherPc = "f_for" /\ pollPc = "p_idle"
       ELSE fetcherPc = "f_none" /\ pollPc = "p_off"
  /\ fetcherIdx = 1
  /\ pollIdx = 1
  /\ pollTargets = <<>>
  /\ pollJoined = <<>>
  /\ snarf = SnarfIdle
  /\ emitted = Quiet
  /\ returned = [r \in Repos |-> [c \in 1..MaxCommits |-> 0]]
  /\ fresh = [r \in Repos |-> 0]

\* The host takes the lines the last step sent: irc.queueMsg and irc.reply
\* return, and so do the log calls.
Flush ==
  /\ ~Ready
  /\ emitted' = Quiet
  /\ UNCHANGED <<GIT_API_VERSION, lifeVars, formatVars, tip, last_commit, errors, lock, fetcherVars,
                 pollVars, snarf, historyVars>>

FetcherNext == FetcherTry \/ FetcherBreak \/ FetcherFetch \/ FetcherSleep

PollNext ==
  PollStart \/ PollTry \/ PollDeliver \/ PollRaise \/ PollSchedule \/ PollJoin

CommandNext == CmdLog \/ CmdRepositories \/ SnarfStart \/ SnarfLoop

\* The background activities: the fetcher thread and the poll runs.
Next ==
  \/ FetcherTry
  \/ FetcherBreak
  \/ FetcherFetch
  \/ FetcherSleep
  \/ PollStart
  \/ PollTry
  \/ PollDeliver
  \/ PollRaise
  \/ PollSchedule
  \/ PollJoin
  \/ Flush

Spec == Init /\ [][Next]_vars

\* The commands and one poll run, in any interleaving, over a repository
\* state the background activities leave behind: the remotes have moved by
\* any amount, the polls have reported any part of it, errors may be queued,
\* and the fetcher sleeps between two rounds.  The commands and the display
\* path do the same under either GitPython API; the API is the 0.3.x one the
\* tests run with.
InitCmd ==
  /\ LifeAtRest
  /\ FormatAtRest
  /\ GIT_API_VERSION = 3
  /\ tip \in [Repos -> 0..MaxCommits]
  /\ SumTips(tip, Repos) <= MaxCommits
  /\ last_commit \in [Repos -> 0..MaxCommits]
  /\ \A r \in Repos : last_commit[r] <= tip[r]
  /\ \E e \in FetchErrors, n \in 0..MaxErrors :
       errors = [r \in Repos |-> [i \in 1..n |-> e]]
  /\ lock = [r \in Repos |-> [owner |-> None, count |-> 0]]
  /\ shutdown = FALSE
  /\ fetcherPc = "f_sleep"
  /\ pollPc = "p_idle"
  /\ fetcherIdx = 1
  /\ pollIdx = 1
  /\ pollTargets = <<>>
  /\ pollJoined = <<>>
  /\ snarf = SnarfIdle
  /\ emitted = Quiet
  /\ returned = [r \in Repos |->
                  [c \in 1..MaxCommits |-> IF c <= last_commit[r] THEN 1 ELSE 0]]
  /\ fresh = [r \in Repos |-> 0]

NextCmd ==
  \/ CmdLog
  \/ CmdRepositories
  \/ SnarfStart
  \/ SnarfLoop
  \/ PollStart
  \/ PollTry
  \/ PollDeliver
  \/ Flush

SpecCmd == InitCmd /\ [][NextCmd]_vars

\* The three kinds of thread together - the fetcher, a poll run, the
\* commands and the snarfer - over mirrors that hold every commit the
\* remotes will have.
InitMutex == InitCmd /\ SumTips(tip, Repos) = MaxCommits

NextMutex ==
  \/ FetcherTry
  \/ FetcherFetch
  \/ FetcherSleep
  \/ PollStart
  \/ PollTry
  \/ PollDeliver
  \/ CmdLog
  \/ CmdRepositories
  \/ SnarfStart
  \/ SnarfLoop
  \/ Flush

SpecMutex == InitMutex /\ [][NextMutex]_vars

\* The fetcher and the poll runs when every get_new_commits call returns.
NextReturns ==
  \/ FetcherTry
  \/ FetcherBreak
  \/ FetcherFetch
  \/ FetcherSleep
  \/ PollStart
  \/ PollTry
  \/ PollDeliver
  \/ PollSchedule
  \/ PollJoin
  \/ Flush

SpecReturns == Init /\ [][NextReturns]_vars

\* The background activities while pollPeriod stays above 0 and nobody asks
\* for a stop: _schedule_next_event finds a period above 0 at the end of
\* every poll run.
PollScheduleOn == PollSchedule /\ pollPc' = "p_idle"

InitOn == Init /\ pollPc = "p_idle"

\* The steps of the fetcher thread.
FetcherOn == FetcherTry \/ FetcherFetch \/ FetcherSleep

\* The steps of a poll run by which it moves on wherever it stands: in the
\* locked section PollRaise can be taken whenever PollDeliver can, and a run
\* that takes infinitely many steps takes infinitely many of these.
PollOn == PollStart \/ PollTry \/ PollRaise \/ PollScheduleOn

NextOn ==
  \/ FetcherTry
  \/ FetcherFetch
  \/ FetcherSleep
  \/ PollStart
  \/ PollTry
  \/ PollDeliver
  \/ PollRaise
  \/ PollScheduleOn
  \/ Flush

\* The fetcher is a thread the interpreter keeps running, the scheduler of
\* the host runs an event when its time has come and a poll run does not
\* stop half-way, and the calls that hand lines to the host return.  The
\* steps are taken when the host has taken the lines of the step before,
\* hence strong fairness.
SpecOn ==
  /\ InitOn
  /\ [][NextOn]_vars
  /\ SF_vars(FetcherOn)
  /\ SF_vars(PollOn)
  /\ WF_vars(Flush)

\* The background activities with a fetcher thread that keeps running -
\* every fetch it has called returns - and a join that returns once the
\* thread has ended.
SpecStop ==
  /\ Init
  /\ [][Next]_vars
  /\ WF_vars(FetcherNext)
  /\ WF_vars(PollJoin)
  /\ WF_vars(Flush)

\* ---------------------------------------------------- the plugin's life
\* rehash, _stop_polling, _read_config and _schedule_next_event work on the
\* plugin object: the list Git.repository_list names, Git.fetcher, and the
\* event in supybot.schedule.  The list is a Python object shared by
\* reference (a GitFetcher keeps the one it was made with), so the lists are
\* kept by identity; what a repository does when it is fetched or polled is
\* in the actions above and is one step here.

\* How many times rehash is called.
MaxRehash == 1

\* How many GitFetcher objects are made: one at the start, and two more for
\* two callers of _schedule_next_event.
MaxThreads == 3

\* The values of pollPeriod (NonNegativeInteger) the owner may set.
LifePeriods == {0, DefaultPollPeriod, 2 * DefaultPollPeriod}

\* GitFetcher.__init__: self.period = period * 1.1, in tenths of a second.
FetcherPeriodSame(period) == period * 10

FetcherPeriod(period) == period * 11

GitFetcher(repositories, period) ==
  [repository_list |-> repositories, period |-> FetcherPeriod(period),
   shutdown |-> FALSE, pc |-> "f_for", idx |-> 1]

\* Thread.isAlive(), from start() until run() returns.
isAlive(t) == threads[t].pc # "f_done"

\* The callers of _stop_polling and _schedule_next_event: rehash on the
\* thread of its command, _poll on the main thread.
Callers == {COMMAND, MAIN}

\* A caller at rest.  at: where it stands; idx, list: its loop; after: where
\* it goes when _stop_polling returns; joining: the thread it waits for;
\* reply: what rehash answered; count: the calls of rehash so far; before:
\* what the plugin held when rehash was called.
NoSnapshot == [list |-> <<>>, fetching |-> FALSE, scheduled |-> FALSE]

CallerIdle ==
  [at |-> "idle", idx |-> 1, list |-> 0, after |-> "idle", joining |-> 0,
   reply |-> <<>>, count |-> 0, before |-> NoSnapshot]

\* plural(n, 'repository') of the reply of rehash.
plural(count) == IF count = 1 THEN "repository" ELSE "repositories"

Reinitialized(n) == <<"Git reinitialized with", n, plural(n)>>

Warning == <<"Warning">>

\* GitFetcher.run, one repository of its list after the other: the list is
\* the object the thread was made with, read as it is now.
LifeFetcherVisit ==
  /\ \E t \in 1..Len(threads) :
       LET th == threads[t]
       IN  /\ th.pc = "f_for"
           /\ threads' = [threads EXCEPT ![t] =
                IF th.shutdown \/ th.idx > Len(lists[th.repository_list])
                THEN [th EXCEPT !.pc = "f_sleep", !.idx = 1]
                ELSE [th EXCEPT !.idx = th.idx + 1]]
  /\ UNCHANGED <<lists, self_repository_list, fetcher, schedule, pollPeriod,
                 caller, seen>>
  /\ UNCHANGED <<GIT_API_VERSION, tip, last_commit, errors, lock,
                 fetcherVars, pollVars, snarf, emitted, historyVars,
                 formatVars, config_file, decided>>

\* A GitFetcher whose run() has returned: nothing reads its fields again.
Ended ==
  [repository_list |-> 0, period |-> 0, shutdown |-> TRUE, pc |-> "f_done",
   idx |-> 1]

\* The wait loop and the while test of run(): shutdown ends the thread.
LifeFetcherSleep ==
  /\ \E t \in 1..Len(threads) :
       LET th == threads[t]
       IN  /\ th.pc = "f_sleep"
           /\ threads' = [threads EXCEPT ![t] =
                IF th.shutdown THEN Ended ELSE [th EXCEPT !.pc = "f_for"]]
  /\ UNCHANGED <<lists, self_repository_list, fetcher, schedule, pollPeriod,
                 caller, seen>>
  /\ UNCHANGED <<GIT_API_VERSION, tip, last_commit, errors, lock,
                 fetcherVars, pollVars, snarf, emitted, historyVars,
                 formatVars, config_file, decided>>

\* _stop_polling up to the join: self.fetcher.stop(), self.fetcher.join();
\* without a fetcher, removeEvent at once.
StopPolling(c) ==
  /\ caller[c].at = "stop"
  /\ IF fetcher # NoFetcher
     THEN /\ threads' = [threads EXCEPT ![fetcher].shutdown = TRUE]
          /\ caller' = [caller EXCEPT ![c].at = "join", ![c].joining = fetcher]
          /\ UNCHANGED schedule
     ELSE /\ schedule' = {}
          /\ caller' = [caller EXCEPT ![c].at = caller[c].after]
          /\ UNCHANGED threads
  /\ UNCHANGED <<lists, self_repository_list, fetcher, pollPeriod, seen>>
  /\ UNCHANGED <<GIT_API_VERSION, tip, last_commit, errors, lock,
                 fetcherVars, pollVars, snarf, emitted, historyVars,
                 formatVars, config_file, decided>>

\* join() returns when the thread has ended; self.fetcher = NoFetcher and
\* schedule.removeEvent(self.name()).
Join(c) ==
  /\ caller[c].at = "join"
  /\ ~isAlive(caller[c].joining)
  /\ fetcher' = NoFetcher
  /\ schedule' = {}
  /\ caller' = [caller EXCEPT ![c].at = caller[c].after, ![c].joining = 0]
  /\ UNCHANGED <<lists, self_repository_list, threads, pollPeriod, seen>>
  /\ UNCHANGED <<GIT_API_VERSION, tip, last_commit, errors, lock,
                 fetcherVars, pollVars, snarf, emitted, historyVars,
                 formatVars, config_file, decided>>

\* What the plugin holds when rehash is called.
Snapshot ==
  [list      |-> lists[self_repository_list],
   fetching  |-> fetcher # NoFetcher /\ isAlive(fetcher),
   scheduled |-> schedule # {}]

\* rehash is called: self._stop_polling() first.
RehashStart ==
  /\ caller[COMMAND].at = "idle"
  /\ caller[MAIN].after # "dead"
  /\ caller[COMMAND].count < MaxRehash
  /\ caller' = [caller EXCEPT ![COMMAND] =
       [@ EXCEPT !.at = "stop", !.after = "read", !.reply = <<>>,
                 !.count = @ + 1, !.before = Snapshot]]
  /\ UNCHANGED <<lists, self_repository_list, fetcher, threads, schedule,
                 pollPeriod, seen>>
  /\ UNCHANGED <<GIT_API_VERSION, tip, last_commit, errors, lock,
                 fetcherVars, pollVars, snarf, emitted, historyVars,
                 formatVars, config_file, decided>>

\* _read_config: self.repository_list = [], then the os.access test, which
\* raises when the file cannot be read; rehash replies 'Warning: ...'.
RehashRead ==
  /\ caller[COMMAND].at = "read"
  /\ lists' = Append(lists, <<>>)
  /\ self_repository_list' = Len(lists) + 1
  /\ \/ caller' = [caller EXCEPT ![COMMAND].at = "idle",
                                 ![COMMAND].reply = Warning]
     \/ caller' = [caller EXCEPT ![COMMAND].at =
                                   IF config_file = <<>> THEN "sched" ELSE "append",
                                 ![COMMAND].idx = 1]
  /\ UNCHANGED <<fetcher, threads, schedule, pollPeriod, seen>>
  /\ UNCHANGED <<GIT_API_VERSION, tip, last_commit, errors, lock,
                 fetcherVars, pollVars, snarf, emitted, historyVars,
                 formatVars, config_file, decided>>

\* for section in parser.sections(): Repository(...) validates the section
\* and clones, and raises when either fails; else the repository is appended
\* to self.repository_list.  A repository is named by the place of its
\* section in the file.
RehashAppend ==
  /\ caller[COMMAND].at = "append"
  /\ LET c == caller[COMMAND]
     IN  \/ /\ caller' = [caller EXCEPT ![COMMAND].at = "idle",
                                        ![COMMAND].idx = 1,
                                        ![COMMAND].reply = Warning]
            /\ UNCHANGED lists
         \/ /\ ~SectionRaises(config_file[c.idx])
            /\ lists' = [lists EXCEPT ![self_repository_list] =
                           Append(@, c.idx)]
            /\ caller' = [caller EXCEPT ![COMMAND] =
                 IF c.idx = Len(config_file)
                 THEN [c EXCEPT !.at = "sched", !.idx = 1]
                 ELSE [c EXCEPT !.idx = c.idx + 1]]
  /\ UNCHANGED <<self_repository_list, fetcher, threads, schedule,
                 pollPeriod, seen>>
  /\ UNCHANGED <<GIT_API_VERSION, tip, last_commit, errors, lock,
                 fetcherVars, pollVars, snarf, emitted, historyVars,
                 formatVars, config_file, decided>>

\* What the caller does when _schedule_next_event has returned: rehash
\* replies with len(self.repository_list), _poll ends.
Returned(c) ==
  IF c = COMMAND
  THEN [caller[c] EXCEPT !.at = "idle",
          !.reply = Reinitialized(Len(lists[self_repository_list]))]
  ELSE [caller[c] EXCEPT !.at = "idle"]

\* _schedule_next_event: with a period above 0 a GitFetcher over
\* self.repository_list is made and started unless self.fetcher is alive,
\* and the event is added; with 0, _stop_polling.
ScheduleNextEvent(c) ==
  /\ caller[c].at = "sched"
  /\ decided' = pollPeriod
  /\ LET period == pollPeriod
     IN  IF period > 0
         THEN /\ IF fetcher = NoFetcher \/ ~isAlive(fetcher)
                 THEN /\ Len(threads) < MaxThreads
                      /\ threads' = Append(threads,
                                      GitFetcher(self_repository_list, period))
                      /\ fetcher' = Len(threads) + 1
                 ELSE UNCHANGED <<threads, fetcher>>
              /\ schedule' = {period}
              /\ caller' = [caller EXCEPT ![c] = Returned(c)]
         ELSE /\ caller' = [caller EXCEPT ![c].at = "stop", ![c].after = "end"]
              /\ UNCHANGED <<threads, fetcher, schedule>>
  /\ UNCHANGED <<lists, self_repository_list, pollPeriod, seen>>
  /\ UNCHANGED <<GIT_API_VERSION, tip, last_commit, errors, lock,
                 fetcherVars, pollVars, snarf, emitted, historyVars,
                 formatVars, config_file>>

\* _schedule_next_event returns after the _stop_polling it called.
ScheduleReturn(c) ==
  /\ caller[c].at = "end"
  /\ caller' = [caller EXCEPT ![c] = Returned(c)]
  /\ UNCHANGED <<lists, self_repository_list, fetcher, threads, schedule,
                 pollPeriod, seen>>
  /\ UNCHANGED <<GIT_API_VERSION, tip, last_commit, errors, lock,
                 fetcherVars, pollVars, snarf, emitted, historyVars,
                 formatVars, config_file, decided>>

\* The scheduler runs the event, which is no longer scheduled then, and
\* _poll starts its loop over the list self.repository_list names now.
LifePollStart ==
  /\ caller[MAIN].at = "idle"
  /\ schedule # {}
  /\ schedule' = {}
  /\ caller' = [caller EXCEPT ![MAIN].at = "for", ![MAIN].idx = 1,
                              ![MAIN].list = self_repository_list]
  /\ UNCHANGED <<lists, self_repository_list, fetcher, threads, pollPeriod,
                 seen>>
  /\ UNCHANGED <<GIT_API_VERSION, tip, last_commit, errors, lock,
                 fetcherVars, pollVars, snarf, emitted, historyVars,
                 formatVars, config_file, decided>>

\* for repository in self.repository_list, over the list as it is now; at
\* its end the run has seen what the list held, and goes on to
\* self._schedule_next_event().
LifePollVisit ==
  /\ caller[MAIN].at = "for"
  /\ LET c == caller[MAIN]
     IN  IF c.idx <= Len(lists[c.list])
         THEN /\ caller' = [caller EXCEPT ![MAIN].idx = c.idx + 1]
              /\ UNCHANGED seen
         ELSE /\ caller' = [caller EXCEPT ![MAIN].at = "sched",
                                          ![MAIN].idx = 1, ![MAIN].list = 0]
              /\ seen' = lists[c.list]
  /\ UNCHANGED <<lists, self_repository_list, fetcher, threads, schedule,
                 pollPeriod>>
  /\ UNCHANGED <<GIT_API_VERSION, tip, last_commit, errors, lock,
                 fetcherVars, pollVars, snarf, emitted, historyVars,
                 formatVars, config_file, decided>>

\* log, repositories and _snarf on the thread of their command: each reads
\* self.repository_list once.
LifeCommand ==
  /\ seen' = lists[self_repository_list]
  /\ UNCHANGED <<lists, self_repository_list, fetcher, threads, schedule,
                 pollPeriod, caller>>
  /\ UNCHANGED <<GIT_API_VERSION, tip, last_commit, errors, lock,
                 fetcherVars, pollVars, snarf, emitted, historyVars,
                 formatVars, config_file, decided>>

\* The owner sets supybot.plugins.Git.pollPeriod.
ConfigSet ==
  /\ \E period \in LifePeriods \ {pollPeriod} : pollPeriod' = period
  /\ UNCHANGED <<lists, self_repository_list, fetcher, threads, schedule,
                 caller, seen>>
  /\ UNCHANGED <<GIT_API_VERSION, tip, last_commit, errors, lock,
                 fetcherVars, pollVars, snarf, emitted, historyVars,
                 formatVars, config_file, decided>>

\* die(), called by the host on the main thread when the plugin is unloaded
\* or the bot quits: _stop_polling, after which no event of the plugin is
\* run and no command of it is called.
Die ==
  /\ caller[MAIN].at = "idle"
  /\ caller' = [caller EXCEPT ![MAIN].at = "stop", ![MAIN].after = "dead"]
  /\ UNCHANGED <<lists, self_repository_list, fetcher, threads, schedule,
                 pollPeriod, seen>>
  /\ UNCHANGED <<GIT_API_VERSION, tip, last_commit, errors, lock,
                 fetcherVars, pollVars, snarf, emitted, historyVars,
                 formatVars, config_file, decided>>

\* The repositories at rest, as the actions above leave them alone.
CoreAtRest ==
  /\ GIT_API_VERSION = 3
  /\ tip = [r \in Repos |-> 0]
  /\ last_commit = [r \in Repos |-> 0]
  /\ errors = [r \in Repos |-> <<>>]
  /\ lock = [r \in Repos |-> [owner |-> None, count |-> 0]]
  /\ shutdown = FALSE
  /\ fetcherPc = "f_none"
  /\ pollPc = "p_off"
  /\ fetcherIdx = 1
  /\ pollIdx = 1
  /\ pollTargets = <<>>
  /\ pollJoined = <<>>
  /\ snarf = SnarfIdle
  /\ emitted = Quiet
  /\ returned = [r \in Repos |-> [c \in 1..MaxCommits |-> 0]]
  /\ fresh = [r \in Repos |-> 0]

\* Git.__init__ with a configuration that loads: the list holds every
\* section, and _schedule_next_event has started a fetcher and added the
\* event unless pollPeriod is 0.
InitLife ==
  /\ CoreAtRest
  /\ FormatAtRest
  /\ lists = <<repository_list>>
  /\ self_repository_list = 1
  /\ pollPeriod \in LifePeriods
  /\ IF pollPeriod > 0
     THEN /\ threads = <<GitFetcher(1, pollPeriod)>>
          /\ fetcher = 1
          /\ schedule = {pollPeriod}
     ELSE /\ threads = <<>>
          /\ fetcher = NoFetcher
          /\ schedule = {}
  /\ caller = [c \in Callers |-> CallerIdle]
  /\ seen = repository_list
  /\ config_file = StandardConfig
  /\ decided = pollPeriod

NextLife ==
  \/ LifeFetcherVisit
  \/ LifeFetcherSleep
  \/ \E c \in Callers : StopPolling(c)
  \/ \E c \in Callers : Join(c)
  \/ RehashStart
  \/ RehashRead
  \/ RehashAppend
  \/ \E c \in Callers : ScheduleNextEvent(c)
  \/ \E c \in Callers : ScheduleReturn(c)
  \/ LifePollStart
  \/ LifePollVisit
  \/ LifeCommand
  \/ ConfigSet
  \/ Die

SpecLife == InitLife /\ [][NextLife]_vars

\* ------------------------------------------------- _read_config by itself
\* How many sections the configuration file has at most.
MaxSections == 2

\* The configuration files rehash may find.
Configs == UNION {[1..n -> Sections] : n \in 0..MaxSections}

\* The plugin runs with no repository, the file has been written, and
\* rehash is about to be called.
InitConfig ==
  /\ CoreAtRest
  /\ FormatAtRest
  /\ lists = <<<<>>>>
  /\ self_repository_list = 1
  /\ pollPeriod = DefaultPollPeriod
  /\ threads = <<GitFetcher(1, pollPeriod)>>
  /\ fetcher = 1
  /\ schedule = {pollPeriod}
  /\ caller = [c \in Callers |-> CallerIdle]
  /\ seen = <<>>
  /\ config_file \in Configs
  /\ decided = pollPeriod

\* rehash, and the fetchers it stops and starts.
NextConfig ==
  \/ LifeFetcherVisit
  \/ LifeFetcherSleep
  \/ StopPolling(COMMAND)
  \/ Join(COMMAND)
  \/ RehashStart
  \/ RehashRead
  \/ RehashAppend
  \/ ScheduleNextEvent(COMMAND)

SpecConfig == InitConfig /\ [][NextConfig]_vars

\* ------------------------------------------------ format_message by itself
\* The length of the templates format_message is called with.
MaxLen == 4

\* Their characters: the escape sign, the brackets of a colour, two keys of
\* the substitution table, a character that is no key, the line break, and
\* a byte above 0x7f.
TemplateChars == {"%", "(", ")", "b", "m", "x", LF} \cup NonAsciiBytes

\* The templates: format_str of _reply_commits, or commit_message when
\* format_str is empty.
Templates == UNION {[1..n -> TemplateChars] : n \in 0..MaxLen}

\* A call of format_message on a repository of the configuration and a
\* commit of its branch, with the 0.3.x API.
InitFormat ==
  /\ CoreAtRest
  /\ LifeAtRest
  /\ format_call \in [repository : Repos, commit : 1..2, format_str : Templates]
  /\ format_result = [done |-> FALSE, raised |-> FALSE, result |-> <<>>]

\* The call returns its lines or raises.
FormatMessage ==
  /\ ~format_result.done
  /\ Synchronized(format_call.repository, COMMAND)
  /\ LET m == format_message(GIT_API_VERSION, format_call.repository,
                             format_call.commit, format_call.format_str)
     IN  format_result' = [done |-> TRUE, raised |-> m.raised, result |-> m.result]
  /\ UNCHANGED <<GIT_API_VERSION, lifeVars, tip, last_commit, errors, lock,
                 fetcherVars, pollVars, snarf, emitted, historyVars,
                 format_call>>

NextFormat == FormatMessage

SpecFormat == InitFormat /\ [][NextFormat]_vars

\* --------------------------------------------------- format_link by itself
\* The characters of the link templates: the escape sign, the two
\* specifiers, the brackets and a character that is neither.
LinkChars == {"%", "(", ")", "c", "C", "x"}

\* The values of commit_link, the empty one among them.
LinkTemplates == UNION {[1..n -> LinkChars] : n \in 0..MaxLen}

\* A call of format_link on a repository whose commit_link is format_str,
\* for a commit of its branch.
InitLink ==
  /\ CoreAtRest
  /\ LifeAtRest
  /\ format_call \in [repository : Repos, commit : 1..2, format_str : LinkTemplates]
  /\ format_result = [done |-> FALSE, raised |-> FALSE, result |-> <<>>]

\* The call returns the link.
FormatLink ==
  /\ ~format_result.done
  /\ Synchronized(format_call.repository, COMMAND)
  /\ format_result' =
       [done |-> TRUE, raised |-> FALSE,
        result |-> <<format_link_scan(GIT_API_VERSION, format_call.commit,
                                      format_call.format_str, FALSE, <<>>)>>]
  /\ UNCHANGED <<GIT_API_VERSION, lifeVars, tip, last_commit, errors, lock,
                 fetcherVars, pollVars, snarf, emitted, historyVars,
                 format_call>>

SpecLink == InitLink /\ [][FormatLink]_vars

\* ------------------------------------------------------------ the claims
\* The fetcher stands at an acquire it would have to wait at: the manual one
\* if it were blocking, or the one of @synchronized inside fetch().
FetcherWaits ==
  LET r == repository_list[fetcherIdx]
  IN  \/ /\ fetcherPc = "f_for"
         /\ ~shutdown
         /\ FetcherAcquireBlocking
         /\ ~LockFree(lock[r], FETCHER)
      \/ /\ fetcherPc = "f_fetch"
         /\ ~Synchronized(r, FETCHER)

\* The poll run stands at an acquire it would have to wait at.
PollWaits ==
  LET r == repository_list[pollIdx]
  IN  \/ /\ pollPc = "p_for"
         /\ PollAcquireBlocking
         /\ ~LockFree(lock[r], MAIN)
      \/ /\ pollPc = "p_locked"
         /\ ~Synchronized(r, MAIN)

\* A step in which the fetcher finds the lock of its repository held by the
\* poll run leaves the lock, the mirrors and the error queues alone and goes
\* to the next repository of the round (the sleep after the last one).
FetcherSkips ==
  (/\ fetcherPc = "f_for"
   /\ ~shutdown
   /\ lock[repository_list[fetcherIdx]].owner = MAIN
   /\ <<fetcherPc, fetcherIdx>>' # <<fetcherPc, fetcherIdx>>)
  => /\ UNCHANGED <<lock, tip, last_commit, errors>>
     /\ emitted'.op = "postpone fetch"
     /\ emitted'.log = <<>>
     /\ IF fetcherIdx < NumRepos
        THEN fetcherPc' = "f_for" /\ fetcherIdx' = fetcherIdx + 1
        ELSE fetcherPc' = "f_sleep"

\* The same for a poll run that finds the lock held by the fetcher.
PollSkips ==
  (/\ pollPc = "p_for"
   /\ lock[repository_list[pollIdx]].owner = FETCHER
   /\ <<pollPc, pollIdx>>' # <<pollPc, pollIdx>>)
  => /\ UNCHANGED <<lock, tip, last_commit, errors>>
     /\ emitted'.op \in {"postpone read", "none"}
     /\ emitted'.log = <<>>
     /\ IF pollIdx < NumRepos
        THEN pollPc' = "p_for" /\ pollIdx' = pollIdx + 1
        ELSE pollPc' = "p_sched"

\* C1: in every interleaving of the fetcher and the poll runs neither ever
\* stands at a lock it has to wait for, and an activity that finds the lock
\* of a repository held by the other skips that repository - no retry, no
\* error, nothing changed - and goes on to the next one of its round.
C1_NeverWaits ==
  /\ [](~FetcherWaits /\ ~PollWaits)
  /\ [][FetcherSkips /\ PollSkips]_vars

\* The poll run found repository 1 locked by the fetcher, which still
\* fetches it, and stands at repository 2 in the same round.
C1_Witness ==
  /\ emitted.op = "postpone read"
  /\ emitted.repo = 1
  /\ lock[1].owner = FETCHER
  /\ fetcherPc = "f_fetch"
  /\ pollPc = "p_for"
  /\ pollIdx = 2

\* The step is a call of get_new_commits on r by the poll run.
PollCalls(r) == emitted'.op = "poll" /\ emitted'.repo = r

\* C2: get_new_commits is idempotent while nothing is fetched: a call on a
\* repository that was not fetched since an earlier call returned leaves
\* last_commit as that call left it and, when it returns, returns the empty
\* list.
C2_Idempotent ==
  [][\A r \in Repos :
       (fresh[r] >= 1 /\ PollCalls(r))
       => /\ last_commit'[r] = last_commit[r]
          /\ ~emitted'.raised => emitted'.commits = <<>>]_vars

\* The second of two calls without a fetch in between has returned, after
\* the first had commits to return.
C2_Witness ==
  /\ emitted.op = "poll"
  /\ ~emitted.raised
  /\ emitted.repo = 1
  /\ fresh[1] = 2
  /\ last_commit[1] = 2
  /\ returned[1][2] = 1

\* The commits after a up to b, oldest first.
Between(a, b) == [i \in 1..(b - a) |-> a + i]

\* A call of get_new_commits that returns, returns the commits after
\* last_commit up to the branch tip and leaves last_commit at that tip, in
\* one step under the lock of the repository.
ReturnsTheRange ==
  \A r \in Repos :
    (PollCalls(r) /\ ~emitted'.raised)
    => /\ lock[r].owner = MAIN
       /\ emitted'.commits = Between(last_commit[r], tip[r])
       /\ last_commit'[r] = tip[r]
       /\ tip'[r] = tip[r]

\* C3: a get_new_commits call that returns, returns exactly the commits
\* after the previous last_commit up to the branch tip and sets last_commit
\* to that tip in the same locked step; so over fetches and returning calls
\* every commit up to last_commit was returned exactly once and no commit
\* beyond it was returned.
C3_ExactlyOnce ==
  /\ [](\A r \in Repos : \A c \in 1..MaxCommits :
          returned[r][c] = IF c <= last_commit[r] THEN 1 ELSE 0)
  /\ [][ReturnsTheRange]_vars

\* Commits 1 and 2 of repository 2 were returned by earlier calls, and after
\* a further fetch a call has returned commit 3.
C3_Witness ==
  /\ emitted.op = "poll"
  /\ emitted.repo = 2
  /\ emitted.commits = <<3>>
  /\ last_commit[2] = 3
  /\ \A c \in 1..3 : returned[2][c] = 1

\* C4: last_commit never passes a commit that no get_new_commits call has
\* returned: every commit up to last_commit was in the list of some call
\* that returned (so a call that ends with an exception has left last_commit
\* where it was).
C4_AtLeastOnce ==
  \A r \in Repos : \A c \in 1..MaxCommits :
    c <= last_commit[r] => returned[r][c] >= 1

\* The lines of msgs that went to target t.
LinesTo(msgs, t) ==
  LET to_t(m) == m.irc = t.irc /\ m.chan = t.chan
  IN  SelectSeq(msgs, to_t)

\* The last k of commits (all of them when there are no more than k).
LastOf(commits, k) ==
  IF k >= Len(commits) THEN commits
  ELSE SubSeq(commits, Len(commits) - k + 1, Len(commits))

\* What the burst cap k lets through to target t: one summary line and the
\* last k commits when there are more than k, else every commit.
Capped(api, r, t, commits, k, format_str) ==
  (IF Len(commits) > k
   THEN <<Msg(t.irc, t.chan, r,
              SummaryText(k, Len(commits), RepoConfig[r].long_name))>>
   ELSE <<>>)
  \o CommitMsgs(api, r, t.irc, t.chan, LastOf(commits, k), format_str)

\* The last step ran _display_commits or _reply_commits to the end.
Displayed ==
  /\ emitted.ok
  /\ ~emitted.raised
  /\ \/ emitted.op = "poll"
     \/ emitted.op \in {"log", "snarf"} /\ emitted.commits # <<>>

\* C5: whatever the cap K among the values the setting admits, a list of N
\* commits with N > K goes out, on the notification path and on the reply
\* path, as one summary line 'Showing latest K of N commits to ...' followed
\* by the renderings of exactly the K most recent commits, oldest first; with
\* N <= K no summary line goes out and all N commits are rendered.
C5_BurstCap ==
  Displayed =>
    \A i \in 1..Len(emitted.targets) :
      LinesTo(emitted.msgs, emitted.targets[i])
        = Capped(GIT_API_VERSION, emitted.repo, emitted.targets[i],
                 emitted.commits, emitted.cap,
                 IF emitted.op = "poll" THEN <<>> ELSE ReplyFormat(emitted.repo))

\* The commits the lines render, in the order of the lines.
RECURSIVE CommitsOf(_)
CommitsOf(lines) ==
  IF lines = <<>> THEN <<>>
  ELSE LET rest == CommitsOf(Tail(lines))
           c    == Head(lines).commit
       IN  IF c = NoCommit \/ (rest # <<>> /\ Head(rest) = c) THEN rest
           ELSE <<c>> \o rest

Ascending(s) == \A i \in 1..(Len(s) - 1) : s[i] < s[i + 1]

\* s is a stretch of commits / the end of commits.
IsRunOf(s, commits) ==
  \E a \in 1..(Len(commits) + 1) : \E b \in 0..Len(commits) :
    s = SubSeq(commits, a, b)

IsSuffixOf(s, commits) ==
  \E a \in 1..(Len(commits) + 1) : s = SubSeq(commits, a, Len(commits))

Texts(lines) == [i \in 1..Len(lines) |-> lines[i].text]

\* The min(count, available) most recent commits of the branch of r, oldest
\* first, for the count argument arg of `log`.
MostRecent(r, arg) ==
  LET count == IF arg = <<>> THEN 1 ELSE arg[1]
      m     == IF count < tip[r] + 1 THEN count ELSE tip[r] + 1
  IN  Between(tip[r] - m, tip[r])

LogRejects == emitted'.op = "log" /\ emitted'.arg # <<>> /\ emitted'.arg[1] <= 0

\* C7: `log` called with a count of zero or less, whatever the name, replies
\* with the usage message of the command and nothing else, reads and renders
\* no commit, and leaves last_commit and the error queue of every repository
\* as they were.
C7_LogRejects ==
  [][LogRejects
     => /\ Texts(emitted'.msgs) = <<LogUsage>>
        /\ emitted'.msgs[1].chan = emitted'.chan
        /\ emitted'.commits = <<>>
        /\ CommitsOf(emitted'.msgs) = <<>>
        /\ UNCHANGED <<last_commit, errors, tip, lock>>]_vars

\* `log t1 0` was answered with the usage message while repository 1 had a
\* commit the polls had not reported yet.
C7_Witness ==
  /\ emitted.op = "log"
  /\ emitted.name = RepoConfig[1].short_name
  /\ emitted.arg = <<0>>
  /\ emitted.chan \in Range(RepoConfig[1].channels)
  /\ Texts(emitted.msgs) = <<LogUsage>>
  /\ last_commit[1] < tip[1]

\* The channels repository r is configured for.
ChannelsOf(r) == {RepoConfig[r].channels[i] : i \in 1..Len(RepoConfig[r].channels)}

\* The repositories configured for chan.
ConfiguredFor(chan) == {r \in Repos : chan \in ChannelsOf(r)}

\* The repository with the short name name, 0 when there is none.
Named(name) ==
  IF \E r \in Repos : RepoConfig[r].short_name = name
  THEN CHOOSE r \in Repos : RepoConfig[r].short_name = name
  ELSE 0

\* C8: no line that comes from a repository goes to a channel the repository
\* is not configured for.  A poll run notifies only channels of the
\* repository that the bot is in, and sends to no other; `log` with a count
\* it accepts, called for a repository from a channel outside its channels,
\* replies 'Sorry, not allowed in this channel.' and nothing else;
\* `repositories` lists the repositories configured for the channel it is
\* called from, and says so when there is none; the snarfer asks only
\* repositories configured for the channel of the message; and a command
\* replies to the channel it came from.
C8_Confined ==
  /\ \A i \in 1..Len(emitted.msgs) :
       emitted.msgs[i].repo # 0
       => emitted.msgs[i].chan \in ChannelsOf(emitted.msgs[i].repo)
  /\ emitted.op = "poll"
     => /\ \A i \in 1..Len(emitted.targets) :
             /\ emitted.targets[i].chan \in ChannelsOf(emitted.repo)
             /\ emitted.targets[i].chan \in emitted.joined[emitted.targets[i].irc]
        /\ \A i \in 1..Len(emitted.msgs) :
             /\ emitted.msgs[i].repo = emitted.repo
             /\ \E k \in 1..Len(emitted.targets) :
                  /\ emitted.targets[k].irc = emitted.msgs[i].irc
                  /\ emitted.targets[k].chan = emitted.msgs[i].chan
  /\ emitted.op \in {"log", "repositories", "snarf"}
     => \A i \in 1..Len(emitted.msgs) : emitted.msgs[i].chan = emitted.chan
  /\ (/\ emitted.op = "log"
      /\ Named(emitted.name) # 0
      /\ emitted.arg = <<>> \/ emitted.arg[1] > 0
      /\ emitted.chan \notin ChannelsOf(Named(emitted.name)))
     => Texts(emitted.msgs) = <<NotAllowedText>>
  /\ emitted.op = "repositories"
     => IF ConfiguredFor(emitted.chan) = {}
        THEN Texts(emitted.msgs) = <<NoRepositoriesText>>
        ELSE {emitted.msgs[i].repo : i \in 1..Len(emitted.msgs)}
               = ConfiguredFor(emitted.chan)
  /\ emitted.op = "snarf"
     => \A i \in 1..Len(emitted.tried) :
          emitted.tried[i] \in ConfiguredFor(emitted.chan)

\* `log t1` came from #somewhere, a channel of repository 2 only, and was
\* answered with the refusal.
C8_Witness ==
  /\ emitted.op = "log"
  /\ emitted.name = RepoConfig[1].short_name
  /\ emitted.arg = <<2>>
  /\ emitted.chan = "#somewhere"
  /\ Texts(emitted.msgs) = <<NotAllowedText>>
  /\ tip[1] >= 1

\* The step belongs to `log`, `repositories` or the snarfer.
QueryStep ==
  \/ emitted'.op \in {"log", "repositories", "snarf"}
  \/ snarf' # snarf

\* C9: the queries - get_recent_commits and get_commit, and with them `log`,
\* `repositories` and the snarfer - leave last_commit and the error queue of
\* every repository as they were, so that the next get_new_commits returns
\* the list it would have returned without them.
C9_QueriesLeaveState ==
  [][QueryStep
     => /\ UNCHANGED <<last_commit, errors>>
        /\ \A r \in Repos :
             Between(last_commit'[r], tip'[r]) = Between(last_commit[r], tip[r])]_vars

\* `log t1 2` has shown commits while repository 1 had an error queued and
\* two commits the polls had not reported: they are still to be reported.
C9_Witness ==
  /\ emitted.op = "log"
  /\ emitted.repo = 1
  /\ emitted.commits = <<1, 2>>
  /\ last_commit[1] = 0
  /\ tip[1] = 2
  /\ errors[1] # <<>>

\* The repositories configured for chan, in the order of the configuration.
InOrderFor(chan) ==
  LET configured(r) == chan \in ChannelsOf(r)
  IN  SelectSeq(repository_list, configured)

\* C10: a hex word of 6 to 40 characters in a channel message, with
\* shaSnarfing on, is looked up in the repositories configured for the
\* channel in the order of the configuration; the first that has the commit
\* replies, and the reply is the rendering of that one commit with
\* commit_reply, or with commit_message when commit_reply is empty; no
\* repository after it is asked.  When none has the commit, or shaSnarfing
\* is off, there is no reply.
C10_Snarf ==
  emitted.op = "snarf"
  => LET sha   == emitted.arg[1]
         len   == emitted.arg[2]
         order == InOrderFor(emitted.chan)
         has   == {i \in 1..Len(order) : sha \in 0..tip[order[i]]}
     IN  IF emitted.flag /\ len >= 6 /\ len <= 40 /\ has # {}
         THEN LET first == CHOOSE i \in has : \A k \in has : i <= k
                  r     == order[first]
              IN  /\ emitted.repo = r
                  /\ emitted.tried = SubSeq(order, 1, first)
                  /\ emitted.msgs
                       = CommitMsgs(GIT_API_VERSION, r, emitted.targets[1].irc,
                                    emitted.chan, <<sha>>,
                                    IF RepoConfig[r].commit_reply # <<>>
                                    THEN RepoConfig[r].commit_reply
                                    ELSE RepoConfig[r].commit_message)
         ELSE emitted.msgs = <<>> /\ emitted.repo = 0

\* rehash ends with the reply 'Warning: ...'.
RehashFails ==
  /\ caller[COMMAND].at # "idle"
  /\ caller'[COMMAND].at = "idle"
  /\ caller'[COMMAND].reply = Warning

\* C11: whenever rehash fails - the file cannot be read, or a section does
\* not make a repository - the invoker is told, and the plugin holds what it
\* held when rehash was called: the same repositories in its list, a fetcher
\* running if one was, the poll event scheduled if it was.
C11_FailedReloadKeepsState ==
  [][RehashFails
     => /\ lists'[self_repository_list'] = caller[COMMAND].before.list
        /\ Snapshot' = caller[COMMAND].before]_vars

\* C12: a command or a poll run that reads the repository list while rehash
\* is under way finds every configured repository in it - the old set or the
\* new one, never an empty or half-filled list - and a fetcher that is alive
\* runs over the list the plugin holds.
C12_AtomicSwap ==
  /\ seen = repository_list
  /\ \A t \in 1..Len(threads) :
       isAlive(t) => threads[t].repository_list = self_repository_list

\* The fetcher's fetch of r raises: the step out of repository.fetch() that
\* leaves one more error in the queue of r.
FetchRaises(r) ==
  /\ fetcherPc = "f_fetch"
  /\ fetcherPc' # "f_fetch"
  /\ repository_list[fetcherIdx] = r
  /\ Len(errors'[r]) = Len(errors[r]) + 1

\* The fetcher is at the head of its loop body for r and takes its step.
FetcherAttempts(r) ==
  /\ fetcherPc = "f_for"
  /\ ~shutdown
  /\ repository_list[fetcherIdx] = r
  /\ <<fetcherPc, fetcherIdx>>' # <<fetcherPc, fetcherIdx>>

\* C13: when the fetch of one repository raises, the exception stays inside
\* the fetcher's loop: it is appended to the error queue of that repository
\* and of no other, the lock of the repository is released, and the fetcher
\* goes on to the next repository of the round, or to the wait for the next
\* round after the last one; and every repository the fetcher comes to
\* while it is not asked to stop is attempted.
C13_FetchFailureIsolated ==
  [][\A r \in Repos :
       /\ FetchRaises(r)
          => /\ \E e \in FetchErrors : errors'[r] = Append(errors[r], e)
             /\ \A q \in Repos \ {r} : errors'[q] = errors[q]
             /\ lock[r].owner = FETCHER
             /\ lock'[r].owner = None
             /\ IF fetcherIdx < NumRepos
                THEN fetcherPc' = "f_for" /\ fetcherIdx' = fetcherIdx + 1
                ELSE fetcherPc' = "f_sleep" /\ fetcherIdx' = 1
       /\ FetcherAttempts(r)
          => \/ fetcherPc' = "f_fetch" /\ lock'[r].owner = FETCHER
             \/ emitted' = Postponed("postpone fetch", r)]_vars

\* The fetch of the first repository has raised and the fetcher stands at
\* the second one, which it then fetches.
C13_Witness ==
  /\ errors[repository_list[1]] # <<>>
  /\ errors[repository_list[2]] = <<>>
  /\ lock[repository_list[1]].owner = None
  /\ fetcherPc = "f_fetch"
  /\ fetcherIdx = 2
  /\ tip = [r \in Repos |-> 0]

\* The poll run is done with repository r: it skipped it, or it leaves the
\* locked section.
PollLeaves(r) ==
  /\ pollPc \in {"p_for", "p_locked"}
  /\ repository_list[pollIdx] = r
  /\ pollIdx' = pollIdx + 1 \/ pollPc' = "p_sched"

\* The step logs the errors of queue first, one line each, in their order.
LogsFirst(r, queue) ==
  /\ emitted'.op = "poll"
  /\ emitted'.repo = r
  /\ Slice(emitted'.log, 1, Len(queue)) = queue

PollCatches(r) ==
  /\ pollPc = "p_locked"
  /\ repository_list[pollIdx] = r
  /\ emitted'.op = "poll"
  /\ ~emitted'.ok

\* The poll run stands at repository r and takes its step.
PollComesTo(r) ==
  /\ pollPc = "p_for"
  /\ repository_list[pollIdx] = r
  /\ <<pollPc, pollIdx>>' # <<pollPc, pollIdx>>

FetcherNextRound == fetcherPc = "f_sleep" /\ fetcherPc' = "f_for"

\* A poll run ends with the next one scheduled.
PollRunEnds == pollPc = "p_sched" /\ pollPc' = "p_idle"

PollScheduled == caller[MAIN].at = "sched" /\ caller'[MAIN].at = "idle"

\* It returns after the _stop_polling it called for a period of 0.
PollUnscheduled == caller[MAIN].at = "end" /\ caller'[MAIN].at = "idle"

\* C17: at the end of a poll run both schedules follow the pollPeriod found:
\* the next poll is scheduled with it and the fetcher that runs from then on
\* was made with it, whatever period the fetcher had before; when the period
\* found is 0, no fetcher and no poll event are left.
C17_PeriodPickedUp ==
  [][/\ PollScheduled
        => /\ schedule' = {pollPeriod}
           /\ fetcher' # NoFetcher
           /\ threads'[fetcher'].pc # "f_done"
           /\ threads'[fetcher'].period = FetcherPeriod(pollPeriod)
     /\ PollUnscheduled
        => /\ fetcher' = NoFetcher
           /\ schedule' = {}]_vars

\* RUNNING, STOPPING, STOPPED: the fetcher thread before stop() was called,
\* after it, and when run() has returned.
FetcherRank ==
  IF fetcherPc \in {"f_done", "f_none"} THEN 2
  ELSE IF shutdown THEN 1 ELSE 0

\* C18: once stop() has been called the fetcher thread - every fetch it is
\* in returning - leaves its loop over the repositories and its wait, and
\* run() returns; the thread goes from running to stopping to stopped and
\* never back; the join of _stop_polling returns, and when _stop_polling has
\* returned the plugin holds no fetcher.
C18_ShutdownTerminates ==
  /\ [][FetcherRank' >= FetcherRank]_vars
  /\ [](pollPc = "p_off" => fetcherPc = "f_none")
  /\ (shutdown /\ pollPc = "p_join") ~> (pollPc = "p_off")

\* stop() was called on a fetcher one of whose fetches had raised, the
\* thread has ended, and _stop_polling has returned.
C18_Witness ==
  /\ shutdown
  /\ fetcherPc = "f_none"
  /\ pollPc = "p_off"
  /\ \E r \in Repos : errors[r] # <<>>

\* The template a call of format_message scans.
TemplateOf(call) ==
  IF call.format_str = <<>>
  THEN RepoConfig[call.repository].commit_message
  ELSE call.format_str

\* How many times c is in s.
CountOf(s, c) == Cardinality({i \in 1..Len(s) : s[i] = c})

\* C19: format_message returns one line for each of the k lines of its
\* template - one more than the template has line breaks - in the order of
\* the template, whatever the lines hold, and each line is what the scanner
\* makes of that line of the template from its NORMAL state.
C19_LineCount ==
  format_result.done
  => LET fmt   == TemplateOf(format_call)
         lines == Split(fmt, LF)
     IN  /\ ~format_result.raised
         /\ Len(format_result.result) = CountOf(fmt, LF) + 1
         /\ \A i \in 1..Len(lines) :
              format_result.result[i] =
                format_line(GIT_API_VERSION, format_call.repository,
                            format_call.commit, lines[i], MODE_NORMAL, <<>>, <<>>)

\* s from its last c on, c left out; all of s when c is not in it.
AfterLast(s, c) ==
  LET hits == {i \in 1..Len(s) : s[i] = c}
  IN  IF hits = {} THEN s
      ELSE Slice(s, (CHOOSE k \in hits : \A j \in hits : j <= k) + 1, Len(s))

\* s up to its first c, c left out; all of s when c is not in it.
UpToFirst(s, c) ==
  LET hits == {i \in 1..Len(s) : s[i] = c}
  IN  IF hits = {} THEN s
      ELSE Slice(s, 1, (CHOOSE k \in hits : \A j \in hits : k <= j) - 1)

\* What '%' followed by x is to render as in the NORMAL state.
EscapeText(r, commit, x) ==
  CASE x = "%" -> <<"%">>
    [] x = "b" -> AfterLast(RepoConfig[r].branch, "/")
    [] x = "m" -> UpToFirst(CommitMessage(commit), LF)
    [] OTHER   -> <<x>>

\* C20: an escape met in the NORMAL state does not make format_message fail:
\* '%%' renders as '%', '%b' as the branch after its last '/', '%m' as the
\* first line of the commit message, '%' before a character that is neither
\* a key nor '(' as that character; and what follows the escape is scanned
\* from the NORMAL state.  The templates are those of one line with no
\* escape before this one.
C20_Escapes ==
  format_result.done
  => LET fmt == TemplateOf(format_call)
         r   == format_call.repository
     IN  \A n \in 1..(Len(fmt) - 1) :
           (/\ CountOf(fmt, LF) = 0
            /\ CountOf(Slice(fmt, 1, n - 1), "%") = 0
            /\ fmt[n] = "%"
            /\ fmt[n + 1] \in TemplateChars \ {"(", LF})
           => /\ ~format_result.raised
              /\ format_result.result =
                   <<Slice(fmt, 1, n - 1)
                     \o EscapeText(r, format_call.commit, fmt[n + 1])
                     \o format_line(GIT_API_VERSION, r, format_call.commit,
                                    Slice(fmt, n + 2, Len(fmt)), MODE_NORMAL,
                                    <<>>, <<>>)>>

\* The three-state scan of format_message over one line, with a substitution
\* table that holds 'c' and 'C' only.
RECURSIVE ThreeStateLink(_, _, _, _, _, _)
ThreeStateLink(api, commit, rest, mode, outline, color) ==
  IF rest = <<>> THEN outline
  ELSE LET c == Head(rest)
       IN  IF mode = MODE_SUBST
           THEN IF c = "c"
                THEN ThreeStateLink(api, commit, Tail(rest), MODE_NORMAL,
                       outline \o PySliceTo(get_commit_id(api, commit), 7), color)
                ELSE IF c = "C"
                THEN ThreeStateLink(api, commit, Tail(rest), MODE_NORMAL,
                       outline \o get_commit_id(api, commit), color)
                ELSE IF c = "("
                THEN ThreeStateLink(api, commit, Tail(rest), MODE_COLOR, outline, <<>>)
                ELSE ThreeStateLink(api, commit, Tail(rest), MODE_NORMAL,
                                    outline \o <<c>>, color)
           ELSE IF mode = MODE_COLOR
           THEN IF c = ")"
                THEN ThreeStateLink(api, commit, Tail(rest), MODE_NORMAL,
                                    outline \o <<"\\x03">> \o color, color)
                ELSE ThreeStateLink(api, commit, Tail(rest), MODE_COLOR,
                                    outline, color \o <<c>>)
           ELSE IF c = "%"
           THEN ThreeStateLink(api, commit, Tail(rest), MODE_SUBST, outline, color)
           ELSE ThreeStateLink(api, commit, Tail(rest), MODE_NORMAL,
                               outline \o <<c>>, color)

\* The link of the call, as that scan gives it.
LinkByThreeStates ==
  ThreeStateLink(GIT_API_VERSION, format_call.commit, format_call.format_str,
                 MODE_NORMAL, <<>>, <<>>)

\* The number of '%' that stand in a row right before position i.
RECURSIVE PercentsBefore(_, _)
PercentsBefore(s, i) ==
  IF i > 1 /\ s[i - 1] = "%" THEN 1 + PercentsBefore(s, i - 1) ELSE 0

\* The template escapes an opening bracket: a '(' after an odd run of '%'.
EscapesBracket(s) ==
  \E i \in 1..Len(s) : s[i] = "(" /\ PercentsBefore(s, i) % 2 = 1

\* C21 as stated: for every link template and commit, format_link gives what
\* the three-state scan of format_message gives over the template with the
\* substitution table cut down to 'c' and 'C', and an empty template gives
\* the empty string.
C21_AsStated ==
  format_result.done =>
    /\ format_result.result = <<LinkByThreeStates>>
    /\ (format_call.format_str = <<>> => format_result.result = <<<<>>>>)

\* C21 amended: format_link agrees with that three-state scan on every link
\* template that escapes no opening bracket; where the template holds '%('
\* the link has the bracket itself, since format_link has no colour state;
\* an empty template gives the empty string.
C21_TwoStateLink ==
  format_result.done =>
    /\ (~EscapesBracket(format_call.format_str)
          => format_result.result = <<LinkByThreeStates>>)
    /\ (format_call.format_str = <<"%", "(">>
          => format_result.result = <<<<"(">>>>)
    /\ (format_call.format_str = <<>> => format_result.result = <<<<>>>>)

\* A link with a specifier and an escaped character that is none has been
\* rendered.
C21_Witness ==
  /\ format_result.done
  /\ format_call.format_str = <<"%", "c", "%", "x">>
  /\ format_call.commit = 2
  /\ format_result.result = <<PySliceTo(CommitSha(2), 7) \o <<"x">> >>

\* rehash has run and replied 'Git reinitialized with ...'.
RehashSucceeded ==
  /\ caller[COMMAND].at = "idle"
  /\ caller[COMMAND].count > 0
  /\ caller[COMMAND].reply \notin {<<>>, Warning}

\* Two sections of the file have the same short name.
SharedShortName ==
  \E i, j \in 1..Len(config_file) :
    /\ i # j
    /\ {"short name"} \subseteq (config_file[i].options \cap config_file[j].options)
    /\ config_file[i].short_name = config_file[j].short_name

\* C22: after a rehash that succeeds no two repositories of the active list
\* have the same short_name (nor, then, the same mirror path, which is
\* repo_dir joined with the short name), and a file in which two sections
\* use the same short name is rejected: rehash does not succeed on it.
C22_ShortNamesUnique ==
  RehashSucceeded =>
    /\ \A i, j \in 1..Len(lists[self_repository_list]) :
         i # j => config_file[lists[self_repository_list][i]].short_name
                    # config_file[lists[self_repository_list][j]].short_name
    /\ ~SharedShortName

\* The fetcher takes a repository up: it has passed `if self.shutdown: break`
\* and holds the lock it fetches under.
FetcherTakesUp == fetcherPc # "f_fetch" /\ fetcherPc' = "f_fetch"

ThreadOf(op) == IF op = "poll" THEN MAIN ELSE COMMAND

\* C24: the repository lock is never held across a call into the sink: a
\* step that hands lines about a repository to irc.queueMsg or irc.reply is
\* taken by a thread that does not hold that repository's lock when it takes
\* the step (a synchronized read inside the step has returned, and released
\* the lock, before the lines are handed over).
C24_LockNotHeldAtSink ==
  [][\A r \in Repos :
       (emitted'.msgs # <<>> /\ emitted'.repo = r /\ emitted' # emitted)
         => lock[r].owner # ThreadOf(emitted'.op)]_vars

\* C25: last_commit only moves forward and only under the lock.  The mirror's
\* branch grows by what a fetch brings; last_commit is always a commit of
\* that history, every step that writes it leaves it equal to or later than
\* it was, and the thread that writes it - the poll run in get_new_commits;
\* clone writes it in Repository.__init__, before the repository is in the
\* list - holds the repository's lock when it does.
C25_ForwardUnderLock ==
  /\ [](\A r \in Repos : last_commit[r] \in 0..tip[r])
  /\ [][\A r \in Repos :
          last_commit'[r] # last_commit[r]
            => /\ last_commit'[r] > last_commit[r]
               /\ lock[r].owner = MAIN
               /\ lock[r].count > 0
               /\ pollPc = "p_locked"
               /\ repository_list[pollIdx] = r]_vars

\* A poll run has moved last_commit of a repository from commit 1, where an
\* earlier run had left it, to commit 2.
C25_Witness ==
  /\ emitted.op = "poll"
  /\ emitted.repo \in Repos
  /\ emitted.commits = <<2>>
  /\ last_commit[emitted.repo] = 2

\* The fetcher is inside the locked section of r: between its acquire and
\* the release after repository.fetch().
FetcherIn(r) == fetcherPc = "f_fetch" /\ repository_list[fetcherIdx] = r

\* The poll run is inside the locked section of r: between its acquire and
\* the release in `finally`.
PollIn(r) == pollPc = "p_locked" /\ repository_list[pollIdx] = r

\* The step is a synchronized read of r by a command thread: `log` has read
\* the commits it shows, or the snarfer has looked a word up in r.
CommandReads(r) ==
  \/ /\ emitted' # emitted
     /\ emitted'.op = "log"
     /\ emitted'.repo = r
     /\ emitted'.commits # <<>>
  \/ /\ emitted' # emitted
     /\ emitted'.op = "snarf"
     /\ emitted'.tried # <<>>
     /\ emitted'.tried[Len(emitted'.tried)] = r
  \/ /\ snarf' # snarf
     /\ snarf'.pc = "loop"
     /\ RepositoriesFor(snarf'.chan)[snarf'.idx - 1] = r

\* C26: at most one thread is inside a lock-guarded section of a repository.
\* The fetcher and the poll run are never inside the section of the same
\* repository, whoever is inside is the owner of its lock, and the lock is
\* free when nobody is; a command thread's read of a repository is taken
\* only when neither of them is inside; the synchronized methods called
\* inside a section find the lock free for their thread; the sections of
\* different repositories are independent.
C26_MutualExclusion ==
  /\ [](\A r \in Repos :
          /\ ~(FetcherIn(r) /\ PollIn(r))
          /\ (FetcherIn(r) => lock[r] = [owner |-> FETCHER, count |-> 1])
          /\ (PollIn(r) => lock[r] = [owner |-> MAIN, count |-> 1])
          /\ (~FetcherIn(r) /\ ~PollIn(r) => lock[r] = [owner |-> None, count |-> 0])
          /\ (FetcherIn(r) => Synchronized(r, FETCHER))
          /\ (PollIn(r) => Synchronized(r, MAIN)))
  /\ [][\A r \in Repos :
          CommandReads(r) => ~FetcherIn(r) /\ ~PollIn(r) /\ lock[r].owner = None]_vars

\* The fetcher is inside the section of one repository while the poll run is
\* inside the section of the other.
C26_Witness ==
  \E r, q \in Repos : r # q /\ FetcherIn(r) /\ PollIn(q)

\* The poll run passes r because the bot is in none of its channels: it goes
\* to the next repository without trying the lock, and only logs 'Skipping'.
PollPasses(r) ==
  /\ pollPc = "p_for"
  /\ repository_list[pollIdx] = r
  /\ <<pollPc, pollIdx>>' # <<pollPc, pollIdx>>
  /\ pollPc' # "p_locked"
  /\ emitted'.op # "postpone read"

\* The poll run has a live destination for r, whose mirror holds commits
\* after last_commit, and is done with r in this step: it found the lock
\* taken, or it leaves the locked section.
PollLeavesLive(r) ==
  /\ PollLeaves(r)
  /\ last_commit[r] < tip[r]
  /\ pollPc = "p_locked" \/ emitted'.op = "postpone read"

\* The run leaves r as it found it; it enters a locked section only with a
\* live destination.
SkipTouchesNothing ==
  /\ [](pollPc = "p_locked" => pollTargets # <<>>)
  /\ [][\A r \in Repos :
          PollPasses(r)
            => /\ lock' = lock
               /\ errors' = errors
               /\ last_commit' = last_commit
               /\ UNCHANGED <<tip, returned, fresh>>
               /\ emitted' = Quiet]_vars

LiveFetchers == {t \in 1..Len(threads) : isAlive(t)}

\* Neither rehash nor _poll is under way; die, if called, has returned.
LifeQuiet ==
  /\ caller[COMMAND].at = "idle"
  /\ caller[MAIN].at \in {"idle", "dead"}

\* C28: after any interleaving of the start, poll runs, rehash and die at
\* most one fetcher thread is alive and at most one poll event is scheduled
\* under the plugin's name; and when the last scheduling decision was taken
\* with pollPeriod 0, or die has been called, and the calls have returned,
\* no fetcher is alive and no poll event is scheduled.
C28_SingleSchedule ==
  /\ Cardinality(LiveFetchers) <= 1
  /\ Cardinality(schedule) <= 1
  /\ (LifeQuiet /\ (decided = 0 \/ caller[MAIN].at = "dead"))
       => LiveFetchers = {} /\ schedule = {}

====
